---- MODULE Spec2Model ----
(***************************************************************************)
(* Temporary-directory lifecycle of claudecode: WindowsFileSystemCleaner   *)
(* (windows_cleanup.py), PlatformAdapter.safe_rmtree / create_safe_tempdir *)
(* (platform_utils.py) and the scoped handles of safe_temp.py.             *)
(*                                                                         *)
(* The filesystem is a finite map from paths to entries.  An entry carries *)
(* the pathologies the cleaner is written for: a read-only attribute (a    *)
(* removal fails until chmod clears it), a transient lock (the next `busy` *)
(* removal attempts fail), a permanent lock (`stuck`: every removal fails) *)
(* and, for a directory, a listing that is denied (`nolist`).              *)
(***************************************************************************)
EXTENDS Integers, Sequences, FiniteSets, TLC

VARIABLES fs, stats, cleaner, last, calls, platform, handle, scope, patch, snap

vars == <<fs, stats, cleaner, last, calls, platform, handle, scope, patch, snap>>

(***************************************************************************)
(* Bounds of the model.                                                    *)
(***************************************************************************)
\* deepest nesting of an entry below a scratch directory
MaxNest == 2
\* largest max_retries a cleaner is constructed with (0..MaxRetriesBound)
MaxRetriesBound == 2
\* largest max_depth a cleaner is constructed with (0..MaxDepthBound)
MaxDepthBound == 1
\* longest transient lock: the number of removal attempts it makes fail
MaxBusy == 4
\* number of pathologies the environment puts on one tree
MaxFaults == 1
\* number of safe_rmtree calls made on one cleaner
MaxCalls == 2
\* number of directories one handle creates over its life
MaxCreates == 2

\* WindowsFileSystemCleaner.__init__ defaults, used by safe_windows_rmtree
DefaultMaxRetries == 3
DefaultMaxDepth == 100

(***************************************************************************)
(* Paths.  A scratch directory is <<t>>; below it a directory is named "s" *)
(* and a file "a", so an entry is <<t, "s", ..., "s", n>>.                 *)
(***************************************************************************)
DirNames == {"t1", "t2"}

Names == {"a", "s"}

Parent(p) == SubSeq(p, 1, Len(p) - 1)

Last(p) == p[Len(p)]

RECURSIVE PathsUpTo(_)
PathsUpTo(n) ==
    IF n = 0 THEN {<<t>> : t \in DirNames}
    ELSE PathsUpTo(n - 1) \cup
         {Append(q, x) : q \in {r \in PathsUpTo(n - 1) : Len(r) = n /\ (n = 1 \/ Last(r) = "s")},
                         x \in Names}

AllPaths == PathsUpTo(MaxNest)

NoEntry ==
    [kind |-> "none", ro |-> FALSE, busy |-> 0, stuck |-> FALSE, nolist |-> FALSE,
     target |-> <<>>]

NewFile == [NoEntry EXCEPT !.kind = "file"]

NewDir == [NoEntry EXCEPT !.kind = "dir"]

\* a symbolic link to the path t
NewLink(t) == [NoEntry EXCEPT !.kind = "link", !.target = t]

EmptyFs == [p \in AllPaths |-> NoEntry]

ZeroStats == [files_removed |-> 0, dirs_removed |-> 0, retries_used |-> 0, errors_encountered |-> 0]

\* a dictionary a caller holds: whether it is the cleaner's own
\* _cleanup_stats object or another one, its items, and whether the caller
\* has written to it
Snapshot(own, items) == [taken |-> TRUE, own |-> own, items |-> items, written |-> FALSE]

NoSnapshot == [taken |-> FALSE, own |-> FALSE, items |-> ZeroStats, written |-> FALSE]

(***************************************************************************)
(* Errors.  Every error the filesystem raises is an OSError; the subclass  *)
(* is kept because the handlers of the cleaner select on it.               *)
(***************************************************************************)
NoErr == [type |-> "none", op |-> "none", path |-> <<>>]

Err(t, o, p) == [type |-> t, op |-> o, path |-> p]

IsOSError(e) == e.type \in {"PermissionError", "FileNotFoundError", "OSError"}

Raise(st, e) == [st EXCEPT !.err = e]

Clear(st) == [st EXCEPT !.err = NoErr]

Ok(st) == st.err = NoErr

Start(st, strategy) == [st EXCEPT !.log = Append(@, strategy)]

Exec(f, c) == [fs |-> f, stats |-> c, err |-> NoErr, log |-> <<>>, ops |-> <<>>, deep |-> 0]

\* a removal has been attempted: op at p is the next of the execution's
\* removal attempts, which st.ops keeps in the order they are made, each
\* with the number of strategies started when it is made
Did(st, op, p) == [st EXCEPT !.ops = Append(@, <<op, p, Len(st.log)>>)]

\* _manual_rmtree has passed its check of current_depth at `depth`: st.deep
\* is the deepest level the recursion has worked at
At(st, depth) == [st EXCEPT !.deep = IF depth > @ THEN depth ELSE @]

(***************************************************************************)
(* os primitives.  A state `st` of an execution is [fs, stats, err, log,    *)
(* ops, deep]: the filesystem, the cleaner's counters, the exception in    *)
(* flight, the strategies started so far and the removals attempted so     *)
(* far, both in order, and the deepest level of the manual recursion.      *)
(***************************************************************************)
Exists(f, p) == p \in AllPaths /\ f[p].kind # "none"

IsFile(f, p) == p \in AllPaths /\ f[p].kind = "file"

IsDir(f, p) == p \in AllPaths /\ f[p].kind = "dir"

IsLink(f, p) == p \in AllPaths /\ f[p].kind = "link"

\* the entry a call that follows symbolic links acts on (os.path.exists,
\* os.path.isdir, os.path.isfile, os.listdir)
Follow(f, p) == IF IsLink(f, p) THEN f[p].target ELSE p

\* the entry os.chmod acts on: it follows a link, except on Windows, where
\* follow_symlinks defaults to False
ChmodTarget(f, p) == IF platform = "windows" THEN p ELSE Follow(f, p)

ChildrenOf(f, p) == {q \in AllPaths : Len(q) = Len(p) + 1 /\ Parent(q) = p /\ Exists(f, q)}

Subtree(p) == {q \in AllPaths : Len(q) >= Len(p) /\ SubSeq(q, 1, Len(p)) = p}

\* os.listdir / os.scandir: the entries of p in the order the host lists them
Listdir(f, p, order) ==
    IF ~Exists(f, p) THEN [err |-> Err("FileNotFoundError", "scandir", p), entries |-> <<>>]
    ELSE IF f[p].nolist THEN [err |-> Err("PermissionError", "scandir", p), entries |-> <<>>]
    ELSE [err |-> NoErr,
          entries |-> LET all == [i \in 1..Len(order) |-> Append(p, order[i])]
                      IN SelectSeq(all, LAMBDA q : Exists(f, q))]

\* os.chmod(p, stat.S_IWRITE): clears the read-only attribute
Chmod(st, p) ==
    IF ~Exists(st.fs, ChmodTarget(st.fs, p)) THEN Raise(st, Err("FileNotFoundError", "chmod", p))
    ELSE [st EXCEPT !.fs[ChmodTarget(st.fs, p)].ro = FALSE]

\* a removal attempt on an entry that is there: why it fails, if it does
Blocked(e) == e.ro \/ e.stuck \/ e.busy > 0

\* one more removal attempt has been made on a transiently locked entry
Attempted(e) == IF ~e.ro /\ ~e.stuck /\ e.busy > 0 THEN [e EXCEPT !.busy = @ - 1] ELSE e

\* os.unlink / os.remove
Unlink(st, p) ==
    IF ~Exists(st.fs, p) THEN Raise(Did(st, "unlink", p), Err("FileNotFoundError", "unlink", p))
    ELSE IF Blocked(st.fs[p])
         THEN Raise([Did(st, "unlink", p) EXCEPT !.fs[p] = Attempted(@)],
                    Err("PermissionError", "unlink", p))
    ELSE [Did(st, "unlink", p) EXCEPT !.fs[p] = NoEntry]

\* os.rmdir: a link to a directory is removed by it on Windows and is not a
\* directory (NotADirectoryError) elsewhere
Rmdir(st, p) ==
    IF ~Exists(st.fs, p) THEN Raise(Did(st, "rmdir", p), Err("FileNotFoundError", "rmdir", p))
    ELSE IF IsLink(st.fs, p) /\ platform # "windows"
         THEN Raise(Did(st, "rmdir", p), Err("OSError", "rmdir", p))
    ELSE IF Blocked(st.fs[p])
         THEN Raise([Did(st, "rmdir", p) EXCEPT !.fs[p] = Attempted(@)],
                    Err("PermissionError", "rmdir", p))
    ELSE IF ChildrenOf(st.fs, p) # {} THEN Raise(Did(st, "rmdir", p), Err("OSError", "rmdir", p))
    ELSE [Did(st, "rmdir", p) EXCEPT !.fs[p] = NoEntry]

\* func(path) of an rmtree error handler: the operation that failed, again
Apply(op, st, p, order) ==
    CASE op = "unlink" -> Unlink(st, p)
      [] op = "rmdir" -> Rmdir(st, p)
      [] OTHER -> Raise(st, Listdir(st.fs, p, order).err)

(***************************************************************************)
(* shutil.rmtree(path, onerror=h).  The tree is listed top-down and        *)
(* removed bottom-up; every OSError goes to the handler, and the walk goes *)
(* on when the handler returns.  h is "none" (no handler: the error is     *)
(* raised), "retry" (retry_on_error) or "force" (force_remove_readonly).   *)
(* cfg is [mr, md, order]: max_retries, max_depth and the listing order.   *)
(* An operator named ...After / ...Listed continues the function of the    *)
(* line above it with the result of the call that line makes.              *)
(***************************************************************************)
\* a variant of retry_on_error that retries without making the path writable
ChmodIfExistsSkipped(st, p) == st

\* retry_on_error: if os.path.exists(path): try os.chmod(...) except: pass
ChmodIfExists(st, p) == IF Exists(st.fs, Follow(st.fs, p)) THEN Clear(Chmod(st, p)) ELSE st

RECURSIVE RetryLoop(_, _, _, _, _)
\* a variant of retry_on_error that does not raise the error of its last
\* attempt
RetryAfterSwallows(s, op, p, attempt, cfg) ==
    IF Ok(s) THEN [s EXCEPT !.stats.retries_used = @ + 1]
    ELSE RetryLoop(Clear(s), op, p, attempt + 1, cfg)

\* retry_on_error: after func(path) of one attempt
RetryAfter(s, op, p, attempt, cfg) ==
    IF Ok(s) THEN [s EXCEPT !.stats.retries_used = @ + 1]
    ELSE IF attempt = cfg.mr - 1 THEN s
    ELSE RetryLoop(Clear(s), op, p, attempt + 1, cfg)

\* retry_on_error's loop: for attempt in range(self.max_retries)
RetryLoop(st, op, p, attempt, cfg) ==
    IF attempt >= cfg.mr THEN st
    ELSE RetryAfter(Apply(op, ChmodIfExists(st, p), p, cfg.order), op, p, attempt, cfg)

\* retry_on_error(func, path, exc_info)
RetryOnError(st, op, p, exc, cfg) ==
    IF IsOSError(exc) THEN RetryLoop(st, op, p, 0, cfg) ELSE Raise(st, exc)

\* a variant of force_remove_readonly that calls func(path) a second time
\* when the first call has failed
ForceAfterTwice(s, op, p, cfg) ==
    IF ~Ok(s) THEN s
    ELSE IF Ok(Apply(op, s, p, cfg.order)) THEN Apply(op, s, p, cfg.order)
    ELSE Apply(op, Clear(Apply(op, s, p, cfg.order)), p, cfg.order)

\* force_remove_readonly: func(path) once os.chmod has gone through
ForceAfter(s, op, p, cfg) == IF Ok(s) THEN Apply(op, s, p, cfg.order) ELSE s

\* a variant of _force_rmtree whose second pass uses retry_on_error
ForceRemoveReadonlyRetries(st, op, p, cfg) == RetryLoop(st, op, p, 0, cfg)

\* force_remove_readonly(func, path, exc_info)
ForceRemoveReadonly(st, op, p, cfg) == ForceAfter(Chmod(st, p), op, p, cfg)

\* the onerror call of shutil.rmtree
OnError(st, op, p, exc, h, cfg) ==
    CASE h = "retry" -> RetryOnError(st, op, p, exc, cfg)
      [] h = "force" -> ForceRemoveReadonly(st, op, p, cfg)
      [] OTHER -> Raise(st, exc)

\* shutil.rmtree: except OSError: onerror(op, p, sys.exc_info())
GuardedAfter(s, op, p, h, cfg) ==
    IF Ok(s) THEN s ELSE OnError(Clear(s), op, p, s.err, h, cfg)

\* one guarded operation of shutil.rmtree: try op(p), on OSError call onerror
Guarded(st, op, p, h, cfg) == GuardedAfter(Apply(op, st, p, cfg.order), op, p, h, cfg)

RECURSIVE RmtreeWalk(_, _, _, _)
RECURSIVE RmtreeEntries(_, _, _, _, _)
\* one entry of the listing: a directory is walked, anything else unlinked
RmtreeEntry(st, q, h, cfg) ==
    IF IsDir(st.fs, q) THEN RmtreeWalk(st, q, h, cfg) ELSE Guarded(st, "unlink", q, h, cfg)

\* the loop over the entries listed in a directory
RmtreeEntries(st, entries, i, h, cfg) ==
    IF i > Len(entries) \/ ~Ok(st) THEN st
    ELSE RmtreeEntries(RmtreeEntry(st, entries[i], h, cfg), entries, i + 1, h, cfg)

\* a variant of shutil.rmtree that leaves the emptied directory in place
RmtreeRmdirSkipped(s, p, h, cfg) == s

\* os.rmdir(path), once the entries are done
RmtreeRmdir(s, p, h, cfg) == IF Ok(s) THEN Guarded(s, "rmdir", p, h, cfg) ELSE s

\* after os.scandir(path): a failed listing goes to onerror and lists nothing
RmtreeListed(st, l, p, h, cfg) ==
    RmtreeRmdir(RmtreeEntries(IF l.err = NoErr THEN st
                              ELSE OnError(st, "scandir", p, l.err, h, cfg),
                              l.entries, 1, h, cfg),
                p, h, cfg)

\* shutil._rmtree_unsafe(path, onerror)
RmtreeWalk(st, p, h, cfg) == RmtreeListed(st, Listdir(st.fs, p, cfg.order), p, h, cfg)

\* WindowsFileSystemCleaner._rmtree_with_retries: strategy RETRY_STANDARD
RmtreeWithRetries(st, p, cfg) == RmtreeWalk(Start(st, "RETRY_STANDARD"), p, "retry", cfg)

(***************************************************************************)
(* _force_rmtree: strategy FORCE_ATTRIBUTE.  Pass A is os.walk(path,       *)
(* topdown=False) with a chmod of every file and directory it yields and a *)
(* count of each chmod in files_removed / dirs_removed; pass B is rmtree   *)
(* with force_remove_readonly.                                             *)
(***************************************************************************)
\* pass A: the counter goes up when os.chmod went through; except: pass
ChmodCounted(s, counter) ==
    IF Ok(s) THEN [s EXCEPT !.stats[counter] = @ + 1] ELSE Clear(s)

\* pass A on the files, or on the directories, that os.walk yields for one root
RECURSIVE ChmodEach(_, _, _, _)
ChmodEach(st, entries, i, counter) ==
    IF i > Len(entries) THEN st
    ELSE ChmodEach(ChmodCounted(Chmod(st, entries[i]), counter), entries, i + 1, counter)

\* os.walk sorts the entries with entry.is_dir(), which follows links
DirsOf(f, entries) == SelectSeq(entries, LAMBDA q : IsDir(f, Follow(f, q)))

FilesOf(f, entries) == SelectSeq(entries, LAMBDA q : ~IsDir(f, Follow(f, q)))

\* the directories os.walk goes into: followlinks is False
WalkedOf(f, entries) == SelectSeq(entries, LAMBDA q : IsDir(f, q))

RECURSIVE WalkChmod(_, _, _)
\* os.walk recursing into the subdirectories before it yields their parent
RECURSIVE WalkChmodDirs(_, _, _, _)
WalkChmodDirs(st, dirs, i, cfg) ==
    IF i > Len(dirs) THEN st
    ELSE WalkChmodDirs(WalkChmod(st, dirs[i], cfg), dirs, i + 1, cfg)

\* os.walk after its scandir: a directory that cannot be listed is skipped
WalkListed(st, l, cfg) ==
    IF l.err # NoErr THEN st
    ELSE ChmodEach(ChmodEach(WalkChmodDirs(st, WalkedOf(st.fs, l.entries), 1, cfg),
                             FilesOf(st.fs, l.entries), 1, "files_removed"),
                   DirsOf(st.fs, l.entries), 1, "dirs_removed")

\* os.walk(p, topdown=False) with the body of _force_rmtree's first loop
WalkChmod(st, p, cfg) == WalkListed(st, Listdir(st.fs, p, cfg.order), cfg)

ForceRmtree(st, p, cfg) ==
    RmtreeWalk(WalkChmod(Start(st, "FORCE_ATTRIBUTE"), p, cfg), p, "force", cfg)

(***************************************************************************)
(* _manual_rmtree: strategy MANUAL_RECURSIVE.                              *)
(***************************************************************************)
\* _safe_remove_file: os.remove once os.chmod has gone through
UnlinkAfter(s, p) == IF Ok(s) THEN Unlink(s, p) ELSE s

RECURSIVE SafeRemoveFile(_, _, _, _)
\* _safe_remove_file: except (PermissionError, FileNotFoundError); any other
\* error leaves the loop at once
FileAttempted(s, p, attempt, cfg) ==
    IF Ok(s) THEN s
    ELSE IF s.err.type \notin {"PermissionError", "FileNotFoundError"} THEN s
    ELSE IF attempt = cfg.mr - 1 THEN s
    ELSE SafeRemoveFile(Clear(s), p, attempt + 1, cfg)

\* _safe_remove_file: for attempt in range(self.max_retries)
SafeRemoveFile(st, p, attempt, cfg) ==
    IF attempt >= cfg.mr THEN st
    ELSE FileAttempted(UnlinkAfter(Chmod(st, p), p), p, attempt, cfg)

RECURSIVE SafeRemoveDir(_, _, _, _)
\* _safe_remove_dir: except (PermissionError, OSError)
DirAttempted(s, p, attempt, cfg) ==
    IF Ok(s) THEN s
    ELSE IF ~IsOSError(s.err) THEN s
    ELSE IF attempt = cfg.mr - 1 THEN s
    ELSE SafeRemoveDir(Clear(s), p, attempt + 1, cfg)

\* _safe_remove_dir: os.rmdir in a retry loop, with no chmod
SafeRemoveDir(st, p, attempt, cfg) ==
    IF attempt >= cfg.mr THEN st
    ELSE DirAttempted(Rmdir(st, p), p, attempt, cfg)

\* _manual_rmtree: the counter goes up when the removal of a child returned
CountRemoved(s, counter) == IF Ok(s) THEN [s EXCEPT !.stats[counter] = @ + 1] ELSE s

RECURSIVE ManualRmtree(_, _, _, _)
RECURSIVE ManualEntries(_, _, _, _, _)
\* _manual_rmtree: one entry of os.listdir(path)
ManualEntry(st, q, depth, cfg) ==
    IF IsDir(st.fs, Follow(st.fs, q)) THEN CountRemoved(ManualRmtree(st, q, depth + 1, cfg), "dirs_removed")
    ELSE CountRemoved(SafeRemoveFile(st, q, 0, cfg), "files_removed")

\* a variant of _manual_rmtree whose loop goes on to the next entry when the
\* removal of one has raised
RECURSIVE ManualEntriesGoOn(_, _, _, _, _)
ManualEntriesGoOn(st, entries, i, depth, cfg) ==
    IF i > Len(entries) THEN st
    ELSE ManualEntriesGoOn(ManualEntry(Clear(st), entries[i], depth, cfg), entries, i + 1,
                           depth, cfg)

\* _manual_rmtree: for entry in entries
ManualEntries(st, entries, i, depth, cfg) ==
    IF i > Len(entries) \/ ~Ok(st) THEN st
    ELSE ManualEntries(ManualEntry(st, entries[i], depth, cfg), entries, i + 1, depth, cfg)

\* _manual_rmtree: self._safe_remove_dir(path), once the entries are done
ManualRmdir(s, p, cfg) == IF Ok(s) THEN SafeRemoveDir(s, p, 0, cfg) ELSE s

\* a variant of _manual_rmtree that removes the directory before its entries
ManualListedRmdirFirst(st, l, p, depth, cfg) ==
    IF l.err.type \in {"PermissionError", "FileNotFoundError"} THEN st
    ELSE ManualEntries(ManualRmdir(st, p, cfg), l.entries, 1, depth, cfg)

\* _manual_rmtree after os.listdir(path): except (PermissionError,
\* FileNotFoundError): return
ManualListed(st, l, p, depth, cfg) ==
    IF l.err.type \in {"PermissionError", "FileNotFoundError"} THEN st
    ELSE ManualRmdir(ManualEntries(st, l.entries, 1, depth, cfg), p, cfg)

\* a variant of _manual_rmtree without the check of current_depth
ManualRmtreeUnguarded(st, p, depth, cfg) ==
    IF ~Exists(st.fs, Follow(st.fs, p)) THEN At(st, depth)
    ELSE IF IsFile(st.fs, Follow(st.fs, p)) THEN SafeRemoveFile(At(st, depth), p, 0, cfg)
    ELSE ManualListed(At(st, depth), Listdir(st.fs, Follow(st.fs, p), cfg.order), p, depth, cfg)

ManualRmtree(st, p, depth, cfg) ==
    IF depth > cfg.md THEN Raise(st, Err("WindowsCleanupError", "depth", p))
    ELSE IF ~Exists(st.fs, Follow(st.fs, p)) THEN At(st, depth)
    ELSE IF IsFile(st.fs, Follow(st.fs, p)) THEN SafeRemoveFile(At(st, depth), p, 0, cfg)
    ELSE ManualListed(At(st, depth), Listdir(st.fs, Follow(st.fs, p), cfg.order), p, depth, cfg)

(***************************************************************************)
(* safe_rmtree.  A call yields [st, raised, value, exc, started, causes]:  *)
(* the state it leaves, whether it raised, the value it returned, the      *)
(* exception it raised, the strategies it started in order, and the error  *)
(* each failed strategy ended with.                                        *)
(***************************************************************************)
NoExc == [type |-> "none", causes |-> <<>>]

Returned(st, v, causes) ==
    [st |-> Clear(st), raised |-> FALSE, value |-> v, exc |-> NoExc,
     started |-> st.log, causes |-> causes]

Raised(st, x, causes) ==
    [st |-> Clear(st), raised |-> TRUE, value |-> FALSE, exc |-> x,
     started |-> st.log, causes |-> causes]

\* variants of the handler of e3, used to test the properties below: one
\* that raises whatever ignore_errors says, one whose error keeps only e3
AllFailedAlwaysRaises(st, ignore_errors, causes) ==
    Raised([st EXCEPT !.stats.errors_encountered = @ + 1],
           [type |-> "WindowsCleanupError", causes |-> causes], causes)

AllFailedKeepsLastCause(st, ignore_errors, causes) ==
    IF ignore_errors
    THEN Returned([st EXCEPT !.stats.errors_encountered = @ + 1], FALSE, causes)
    ELSE Raised([st EXCEPT !.stats.errors_encountered = @ + 1],
                [type |-> "WindowsCleanupError", causes |-> <<causes[Len(causes)]>>], causes)

\* except Exception as e3: count the failure, then return False or raise
\* WindowsCleanupError, whose message names e, e2 and e3
AllFailed(st, ignore_errors, causes) ==
    IF ignore_errors
    THEN Returned([st EXCEPT !.stats.errors_encountered = @ + 1], FALSE, causes)
    ELSE Raised([st EXCEPT !.stats.errors_encountered = @ + 1],
                [type |-> "WindowsCleanupError", causes |-> causes], causes)

\* after strategy 3: return True, or the handler of e3
AfterManual(s, ignore_errors, causes) ==
    IF Ok(s) THEN Returned(s, TRUE, causes)
    ELSE AllFailed(s, ignore_errors, Append(causes, s.err))

\* a variant of safe_rmtree that goes on to strategy 3 after strategy 2 has
\* gone through
AfterForceRunsOn(s, p, ignore_errors, cfg, causes) ==
    AfterManual(ManualRmtree(Start(Clear(s), "MANUAL_RECURSIVE"), p, 0, cfg),
                ignore_errors, Append(causes, s.err))

\* after strategy 2: return True, or except Exception as e2: strategy 3
AfterForce(s, p, ignore_errors, cfg, causes) ==
    IF Ok(s) THEN Returned(s, TRUE, causes)
    ELSE AfterManual(ManualRmtree(Start(Clear(s), "MANUAL_RECURSIVE"), p, 0, cfg),
                     ignore_errors, Append(causes, s.err))

\* after strategy 1: return True, or except Exception as e: strategy 2
AfterRetries(s, p, ignore_errors, cfg) ==
    IF Ok(s) THEN Returned(s, TRUE, <<>>)
    ELSE AfterForce(ForceRmtree(Clear(s), p, cfg), p, ignore_errors, cfg, <<s.err>>)

\* a variant of safe_rmtree without the os.path.exists check
SafeRmtreeUnchecked(st, p, ignore_errors, cfg) ==
    AfterRetries(RmtreeWithRetries(st, p, cfg), p, ignore_errors, cfg)

\* WindowsFileSystemCleaner.safe_rmtree(path, ignore_errors)
SafeRmtree(st, p, ignore_errors, cfg) ==
    IF ~Exists(st.fs, p) THEN Returned(st, TRUE, <<>>)
    ELSE AfterRetries(RmtreeWithRetries(st, p, cfg), p, ignore_errors, cfg)

\* the cleaner of safe_windows_rmtree is dropped with its counters
DropStats(r, c) == [r EXCEPT !.st.stats = c]

\* safe_windows_rmtree(path, ignore_errors): a cleaner of its own, with the
\* constructor's defaults and counters that start at zero
SafeWindowsRmtree(st, p, ignore_errors, order) ==
    DropStats(SafeRmtree([st EXCEPT !.stats = ZeroStats], p, ignore_errors,
                         [mr |-> DefaultMaxRetries, md |-> DefaultMaxDepth, order |-> order]),
              st.stats)

\* PlatformAdapter.safe_rmtree, not Windows: return True, or except Exception
AfterStandard(s, ignore_errors) ==
    IF Ok(s) THEN Returned(s, TRUE, <<>>)
    ELSE IF ignore_errors THEN Returned(s, FALSE, <<s.err>>)
    ELSE Raised(s, [type |-> s.err.type, causes |-> <<s.err>>], <<s.err>>)

\* the non-Windows branch of PlatformAdapter.safe_rmtree: shutil.rmtree(path)
StandardRmtree(st, p, ignore_errors, order) ==
    AfterStandard(RmtreeWalk(Start(st, "STANDARD"), p, "none",
                             [mr |-> 0, md |-> 0, order |-> order]),
                  ignore_errors)

\* a variant of PlatformAdapter.safe_rmtree that uses the cleaner on every host
PlatformSafeRmtreeEverywhere(st, p, ignore_errors, order, is_windows) ==
    SafeWindowsRmtree(st, p, ignore_errors, order)

\* PlatformAdapter.safe_rmtree(path, ignore_errors)
PlatformSafeRmtree(st, p, ignore_errors, order, is_windows) ==
    IF ~is_windows THEN StandardRmtree(st, p, ignore_errors, order)
    ELSE SafeWindowsRmtree(st, p, ignore_errors, order)

(***************************************************************************)
(* The teardown engine as a state machine: one WindowsFileSystemCleaner    *)
(* and the process-wide PlatformAdapter over one filesystem.  The caller   *)
(* populates a scratch directory, the environment puts pathologies on its  *)
(* entries, and safe_rmtree is called on directory paths.                  *)
(***************************************************************************)
NoCall ==
    [api |-> "none", path |-> <<>>, ignore |-> FALSE, raised |-> FALSE, value |-> FALSE,
     exc |-> NoExc, started |-> <<>>, causes |-> <<>>]

\* what a call leaves in `last`
CallRecord(api, p, ignore_errors, r) ==
    [api |-> api, path |-> p, ignore |-> ignore_errors, raised |-> r.raised,
     value |-> r.value, exc |-> r.exc, started |-> r.started, causes |-> r.causes]

Orders == {<<"a", "s">>, <<"s", "a">>}

\* teardown is called on scratch directories: one that is there, one that is not
CallTargets == {<<t>> : t \in DirNames}

FaultCount(f) ==
    LET n(p) == (IF f[p].ro THEN 1 ELSE 0) + (IF f[p].busy > 0 THEN 1 ELSE 0)
                + (IF f[p].stuck THEN 1 ELSE 0) + (IF f[p].nolist THEN 1 ELSE 0)
        RECURSIVE Sum(_)
        Sum(S) == IF S = {} THEN 0 ELSE LET x == CHOOSE y \in S : TRUE IN n(x) + Sum(S \ {x})
    IN Sum({p \in AllPaths : Exists(f, p)})

NoPath == <<>>

\* what the last operation on the handle gave its caller
OpRes(op, raised, value) == [op |-> op, raised |-> raised, value |-> value]

\* a handle: its constructor arguments, the path it holds (self.name,
\* self.temp_dir, the generator's temp_dir), whether it has been finalized,
\* the directories it created and the paths it called teardown on
NewHandle(form, strict, auto) ==
    [form |-> form, strict |-> strict, auto |-> auto, name |-> NoPath, alive |-> TRUE,
     created |-> <<>>, torn |-> <<>>, res |-> OpRes("none", "none", "None")]

NoHandle == NewHandle("none", FALSE, FALSE)

\* a with statement: where it is, the path it was given, the exception its
\* body raised and the exception that left the statement
Scope(pc, p, bodyExc, callerExc) ==
    [pc |-> pc, path |-> p, bodyExc |-> bodyExc, callerExc |-> callerExc]

NoScope == Scope("idle", NoPath, "none", "none")

\* the classes tempfile.TemporaryDirectory can name
StdClass == "TemporaryDirectory"

SafeClass == "SafeTemporaryDirectory"

NoClass == "None"

\* what the last call on the patch manager gave its caller
PatchRes(op, value) == [op |-> op, value |-> value]

\* WindowsPatches.__init__, in a process whose tempfile.TemporaryDirectory
\* is the standard class: the class installed in tempfile, the manager's
\* _original_temp_directory and _patches_applied, and the `applied` locals
\* of the patch_context blocks that are open, innermost last
Unpatched ==
    [tempdir |-> StdClass, original |-> NoClass, applied |-> FALSE, open |-> <<>>,
     res |-> PatchRes("none", FALSE)]

Init ==
    /\ fs = [EmptyFs EXCEPT ![<<"t1">>] = NewDir]
    /\ stats = ZeroStats
    /\ cleaner \in [mr : 0..MaxRetriesBound, md : 0..MaxDepthBound]
    /\ last = NoCall
    /\ calls = 0
    /\ platform \in {"windows", "posix"}
    /\ handle = NoHandle
    /\ scope = NoScope
    /\ patch = Unpatched
    /\ snap = NoSnapshot

\* the caller writes a file into its scratch directory
WriteFile(p) ==
    /\ calls = 0
    /\ Len(p) > 1 /\ Last(p) = "a"
    /\ IsDir(fs, Parent(p)) /\ ~Exists(fs, p)
    /\ fs' = [fs EXCEPT ![p] = NewFile]
    /\ UNCHANGED <<stats, cleaner, last, calls, platform, snap, patch, handle, scope>>

\* the caller makes a subdirectory
MakeDir(p) ==
    /\ calls = 0
    /\ Len(p) > 1 /\ Last(p) = "s"
    /\ IsDir(fs, Parent(p)) /\ ~Exists(fs, p)
    /\ fs' = [fs EXCEPT ![p] = NewDir]
    /\ UNCHANGED <<stats, cleaner, last, calls, platform, snap, patch, handle, scope>>

\* the environment: an entry becomes read-only
SetReadOnly(p) ==
    /\ calls = 0 /\ FaultCount(fs) < MaxFaults
    /\ Exists(fs, p) /\ ~fs[p].ro
    /\ fs' = [fs EXCEPT ![p].ro = TRUE]
    /\ UNCHANGED <<stats, cleaner, last, calls, platform, snap, patch, handle, scope>>

\* the environment: another process holds an entry open for a while
LockTransient(p, k) ==
    /\ calls = 0 /\ FaultCount(fs) < MaxFaults
    /\ Exists(fs, p) /\ fs[p].busy = 0
    /\ fs' = [fs EXCEPT ![p].busy = k]
    /\ UNCHANGED <<stats, cleaner, last, calls, platform, snap, patch, handle, scope>>

\* the environment: removal of an entry is denied for good
LockForever(p) ==
    /\ calls = 0 /\ FaultCount(fs) < MaxFaults
    /\ Exists(fs, p) /\ ~fs[p].stuck
    /\ fs' = [fs EXCEPT ![p].stuck = TRUE]
    /\ UNCHANGED <<stats, cleaner, last, calls, platform, snap, patch, handle, scope>>

\* the environment: listing a directory is denied
DenyListing(p) ==
    /\ calls = 0 /\ FaultCount(fs) < MaxFaults
    /\ IsDir(fs, p) /\ ~fs[p].nolist
    /\ fs' = [fs EXCEPT ![p].nolist = TRUE]
    /\ UNCHANGED <<stats, cleaner, last, calls, platform, snap, patch, handle, scope>>

\* a call returns: the filesystem and the counters are as it left them
Commit(api, p, ignore_errors, r) ==
    /\ fs' = r.st.fs
    /\ stats' = r.st.stats
    /\ last' = CallRecord(api, p, ignore_errors, r)

\* cleaner.safe_rmtree(path, ignore_errors)
CleanerCall(p, ignore_errors, order) ==
    /\ calls < MaxCalls
    /\ Commit("cleaner", p, ignore_errors,
              SafeRmtree(Exec(fs, stats), p, ignore_errors,
                         [mr |-> cleaner.mr, md |-> cleaner.md, order |-> order]))
    /\ calls' = calls + 1
    /\ UNCHANGED <<cleaner, platform, snap, patch, handle, scope>>

\* platform_utils.safe_rmtree(path, ignore_errors)
PlatformCall(p, ignore_errors, order) ==
    /\ calls < MaxCalls
    /\ Commit("platform", p, ignore_errors,
              PlatformSafeRmtree(Exec(fs, stats), p, ignore_errors, order,
                                 platform = "windows"))
    /\ calls' = calls + 1
    /\ UNCHANGED <<cleaner, platform, snap, patch, handle, scope>>

\* cleaner.reset_stats()
ResetStats ==
    /\ stats' = ZeroStats
    /\ UNCHANGED <<fs, cleaner, last, calls, platform, snap, patch, handle, scope>>

Populate == \E p \in AllPaths : WriteFile(p) \/ MakeDir(p)

Pathology ==
    \E p \in AllPaths :
        \/ SetReadOnly(p)
        \/ LockForever(p)
        \/ DenyListing(p)
        \/ \E k \in 1..MaxBusy : LockTransient(p, k)

Teardown ==
    \E p \in CallTargets, ignore_errors \in BOOLEAN, order \in Orders :
        \/ CleanerCall(p, ignore_errors, order)
        \/ PlatformCall(p, ignore_errors, order)

Next == Populate \/ Pathology \/ Teardown \/ ResetStats

Spec == Init /\ [][Next]_vars

(***************************************************************************)
(* Properties of the teardown engine, checked under Spec.                  *)
(***************************************************************************)
Strategies == <<"RETRY_STANDARD", "FORCE_ATTRIBUTE", "MANUAL_RECURSIVE">>

\* `last` is a call that ran WindowsFileSystemCleaner.safe_rmtree: on the
\* cleaner, or through the Windows branch of the adapter
EngineCall == last.api = "cleaner" \/ (last.api = "platform" /\ platform = "windows")

\* every strategy the call started has failed
EveryStrategyFailed == last.started # <<>> /\ Len(last.causes) = Len(last.started)

\* the deepest entry below p, p itself being at depth 0
TreeDepth(f, p) ==
    CHOOSE d \in 0..MaxNest :
        /\ \E q \in Subtree(p) : Exists(f, q) /\ Len(q) - Len(p) = d
        /\ \A q \in Subtree(p) : Exists(f, q) => Len(q) - Len(p) <= d

\* C1: safe_rmtree on a cleaner, and safe_windows_rmtree, called on a path
\* that does not exist return True for both values of ignore_errors, start
\* no strategy, and leave the filesystem and every counter as they were.
C1_MissingPathIsNoOp ==
    [][\A p \in CallTargets, ignore_errors \in BOOLEAN, order \in Orders :
          (/\ ~Exists(fs, p)
           /\ \/ CleanerCall(p, ignore_errors, order)
              \/ platform = "windows" /\ PlatformCall(p, ignore_errors, order))
          => /\ last'.value /\ ~last'.raised
             /\ last'.started = <<>>
             /\ fs' = fs
             /\ stats' = stats]_vars

\* a cleaner was called with ignore_errors=False on a path that is not there
C1_Witness ==
    /\ last.api = "cleaner" /\ ~last.ignore
    /\ ~Exists(fs, last.path)
    /\ last.started = <<>> /\ last.value

\* C2: whenever safe_rmtree on a tree no deeper than max_depth returns True,
\* nothing of the tree is left, whichever strategy went through.  Stated for
\* a cleaner that retries (max_retries >= 1).
C2_SuccessMeansRemoved ==
    [][\A p \in CallTargets, ignore_errors \in BOOLEAN, order \in Orders :
          (/\ cleaner.mr >= 1
           /\ IsDir(fs, p) /\ TreeDepth(fs, p) <= cleaner.md
           /\ CleanerCall(p, ignore_errors, order)
           /\ last'.value /\ ~last'.raised)
          => \A q \in Subtree(p) : ~Exists(fs', q)]_vars

\* C3: with ignore_errors=True a call never raises, on the cleaner and on
\* both branches of the adapter: it returns a boolean.  When the three
\* strategies of safe_rmtree have failed it returns False and the directory
\* is still there.
C3_IgnoreErrorsNeverRaises ==
    (last.api # "none" /\ last.ignore)
    => /\ ~last.raised
       /\ last.value \in BOOLEAN
       /\ (EngineCall /\ EveryStrategyFailed) => ~last.value /\ IsDir(fs, last.path)

\* the three strategies failed under ignore_errors=True
C3_Witness ==
    /\ last.api = "cleaner" /\ last.ignore
    /\ last.started = Strategies /\ Len(last.causes) = 3
    /\ ~last.value /\ ~last.raised

\* C4: safe_rmtree raises exactly when the three strategies have failed and
\* ignore_errors is False, and what it raises is one WindowsCleanupError
\* with the causes of strategy 1, 2 and 3 in that order.
C4_CompositeErrorExactlyWhenAllFail ==
    EngineCall
    => /\ last.raised <=> (last.started = Strategies /\ Len(last.causes) = 3 /\ ~last.ignore)
       /\ last.raised => /\ last.exc.type = "WindowsCleanupError"
                         /\ last.exc.causes = last.causes
                         /\ \A i \in 1..3 : last.causes[i] # NoErr

\* a cleaner raised the composite error
C4_Witness ==
    /\ last.api = "cleaner" /\ last.raised
    /\ Len(last.exc.causes) = 3

\* C5: the strategies a call starts are a prefix of RETRY_STANDARD,
\* FORCE_ATTRIBUTE, MANUAL_RECURSIVE; each one but the last started has
\* failed; and the call returns True exactly when the last one started went
\* through, so that nothing runs after a success.
C5_StrategiesInOrder ==
    EngineCall
    => /\ Len(last.started) <= 3
       /\ last.started = SubSeq(Strategies, 1, Len(last.started))
       /\ \A i \in 1..Len(last.causes) : last.causes[i] # NoErr
       /\ IF last.value /\ ~last.raised
          THEN Len(last.causes) = (IF last.started = <<>> THEN 0 ELSE Len(last.started) - 1)
          ELSE last.started = Strategies /\ Len(last.causes) = 3

\* FORCE_ATTRIBUTE went through after RETRY_STANDARD had failed
C5_Witness ==
    /\ last.api = "cleaner"
    /\ last.started = <<"RETRY_STANDARD", "FORCE_ATTRIBUTE">>
    /\ Len(last.causes) = 1 /\ last.value


(***************************************************************************)
(* The scoped handles of safe_temp.py: safe_temp_directory ("ctx"),        *)
(* SafeTemporaryDirectory ("std") and SafeTempDir ("tmp").  An operation   *)
(* yields [h, fs, called, path, ignore, r]: the handle and the filesystem  *)
(* it leaves, and the safe_rmtree call it made, if it made one.            *)
(***************************************************************************)
World(h, f, called, p, ignore_errors, r) ==
    [h |-> h, fs |-> f, called |-> called, path |-> p, ignore |-> ignore_errors, r |-> r]

\* an operation that does not call safe_rmtree
Quiet(h, f) == World(h, f, FALSE, NoPath, FALSE, Returned(Exec(f, ZeroStats), TRUE, <<>>))

\* a variant of tempfile.mkdtemp that returns a name without making the
\* directory
MkdTempNameOnly(f, d) == f

\* tempfile.mkdtemp(prefix=prefix): a directory of a name not in use
MkdTemp(f, d) == [f EXCEPT ![<<d>>] = NewDir]

\* a variant of SafeTemporaryDirectory.cleanup that reports a failed teardown
\* whatever ignore_cleanup_errors says
StdCleanupRaisesAlways(h, r) ==
    IF r.raised THEN r.exc.type
    ELSE IF r.value THEN "none" ELSE "OSError"

\* SafeTemporaryDirectory.cleanup: the exception that leaves it
StdCleanupRaises(h, r) ==
    IF ~h.strict THEN "none"
    ELSE IF r.raised THEN r.exc.type
    ELSE IF r.value THEN "none" ELSE "OSError"

\* a variant of SafeTemporaryDirectory.cleanup without the finally clause
StdCleanupAfterKeepsName(h, r) ==
    World([h EXCEPT !.torn = Append(@, h.name),
                    !.res = OpRes("cleanup", StdCleanupRaises(h, r), "None")],
          r.st.fs, TRUE, h.name, ~h.strict, r)

\* SafeTemporaryDirectory.cleanup after safe_rmtree; finally: self.name = None
StdCleanupAfter(h, r) ==
    World([h EXCEPT !.name = NoPath, !.torn = Append(@, h.name),
                    !.res = OpRes("cleanup", StdCleanupRaises(h, r), "None")],
          r.st.fs, TRUE, h.name, ~h.strict, r)

\* a variant of SafeTemporaryDirectory.cleanup that calls safe_rmtree with
\* ignore_errors=False whatever ignore_cleanup_errors says
StdCleanupStrictCall(h, f, c, order, is_windows) ==
    IF h.name = NoPath THEN Quiet([h EXCEPT !.res = OpRes("cleanup", "none", "None")], f)
    ELSE StdCleanupAfter(h, PlatformSafeRmtree(Exec(f, c), h.name, FALSE, order, is_windows))

\* SafeTemporaryDirectory.cleanup()
StdCleanup(h, f, c, order, is_windows) ==
    IF h.name = NoPath THEN Quiet([h EXCEPT !.res = OpRes("cleanup", "none", "None")], f)
    ELSE StdCleanupAfter(h, PlatformSafeRmtree(Exec(f, c), h.name, ~h.strict, order, is_windows))

\* a variant of SafeTempDir.cleanup that keeps the path when the teardown
\* has failed
TmpCleanupAfterKeepsName(h, r) ==
    IF r.raised \/ ~r.value
    THEN World([h EXCEPT !.torn = Append(@, h.name), !.res = OpRes("cleanup", "none", "False")],
               r.st.fs, TRUE, h.name, TRUE, r)
    ELSE World([h EXCEPT !.name = NoPath, !.torn = Append(@, h.name),
                         !.res = OpRes("cleanup", "none", "True")],
               r.st.fs, TRUE, h.name, TRUE, r)

\* SafeTempDir.cleanup after safe_rmtree: self.temp_dir = None; return success,
\* or except Exception: return False
TmpCleanupAfter(h, r) ==
    IF r.raised
    THEN World([h EXCEPT !.torn = Append(@, h.name), !.res = OpRes("cleanup", "none", "False")],
               r.st.fs, TRUE, h.name, TRUE, r)
    ELSE World([h EXCEPT !.name = NoPath, !.torn = Append(@, h.name),
                         !.res = OpRes("cleanup", "none", IF r.value THEN "True" ELSE "False")],
               r.st.fs, TRUE, h.name, TRUE, r)

\* a variant of SafeTempDir.cleanup without the check of self.temp_dir
TmpCleanupUnguarded(h, f, c, order, is_windows) ==
    TmpCleanupAfter(h, PlatformSafeRmtree(Exec(f, c), h.name, TRUE, order, is_windows))

\* SafeTempDir.cleanup()
TmpCleanup(h, f, c, order, is_windows) ==
    IF h.name = NoPath THEN Quiet([h EXCEPT !.res = OpRes("cleanup", "none", "True")], f)
    ELSE TmpCleanupAfter(h, PlatformSafeRmtree(Exec(f, c), h.name, TRUE, order, is_windows))

\* safe_temp_directory, finally: after safe_rmtree; its exceptions are logged
CtxFinallyAfter(h, r) ==
    World([h EXCEPT !.name = NoPath, !.torn = Append(@, h.name),
                    !.res = OpRes("exit", "none", "None")],
          r.st.fs, TRUE, h.name, TRUE, r)

\* a variant of safe_temp_directory whose finally does not ask auto_cleanup
CtxFinallyAlways(h, f, c, order, is_windows) ==
    IF h.name # NoPath /\ Exists(f, h.name)
    THEN CtxFinallyAfter(h, PlatformSafeRmtree(Exec(f, c), h.name, TRUE, order, is_windows))
    ELSE Quiet([h EXCEPT !.name = NoPath, !.res = OpRes("exit", "none", "None")], f)

\* a variant of safe_temp_directory without the cleanup of its finally
CtxFinallySkips(h, f, c, order, is_windows) ==
    Quiet([h EXCEPT !.name = NoPath, !.res = OpRes("exit", "none", "None")], f)

\* safe_temp_directory, finally: if auto_cleanup and temp_dir and
\* os.path.exists(temp_dir)
CtxFinally(h, f, c, order, is_windows) ==
    IF h.auto /\ h.name # NoPath /\ Exists(f, h.name)
    THEN CtxFinallyAfter(h, PlatformSafeRmtree(Exec(f, c), h.name, TRUE, order, is_windows))
    ELSE Quiet([h EXCEPT !.name = NoPath, !.res = OpRes("exit", "none", "None")], f)

\* cleanup() of the two classes
Cleanup(h, f, c, order, is_windows) ==
    IF h.form = "std" THEN StdCleanup(h, f, c, order, is_windows)
    ELSE TmpCleanup(h, f, c, order, is_windows)

\* __exit__ of the two classes, and the generator's finally
Exit(h, f, c, order, is_windows) ==
    IF h.form = "ctx" THEN CtxFinally(h, f, c, order, is_windows)
    ELSE Cleanup(h, f, c, order, is_windows)

\* a prefix of n characters, each told from the others by its position
PrefixOf(n) == [i \in 1..n |-> i]

\* len("claude_temp_"), the default prefix of safe_temp_directory, SafeTempDir
\* and create_safe_tempdir, and len("tmp"), that of SafeTemporaryDirectory
DefaultPrefixLen == 12

StdPrefixLen == 3

\* if len(prefix) > 20: prefix = prefix[:20]
PrefixLimit == 20

\* a variant of create_safe_tempdir that shortens the prefix on every host
TruncatedEverywhere(prefix, sys_win) ==
    IF Len(prefix) > PrefixLimit THEN SubSeq(prefix, 1, PrefixLimit) ELSE prefix

\* the prefix windows_cleanup.create_safe_tempdir hands to mkdtemp
Truncated(prefix, sys_win) ==
    IF sys_win /\ Len(prefix) > PrefixLimit THEN SubSeq(prefix, 1, PrefixLimit) ELSE prefix

\* a variant of the creation that calls mkdtemp a second time when the first
\* call fails
TempfileMkdtempRetried(f, prefix, d, ok, n) ==
    IF ok
    THEN [raised |-> "none", path |-> <<d>>, base |-> [prefix |-> prefix, suffix |-> d],
          fs |-> MkdTemp(f, d), mkdtemp |-> n + 1]
    ELSE [raised |-> "OSError", path |-> NoPath, base |-> [prefix |-> <<>>, suffix |-> ""],
          fs |-> f, mkdtemp |-> n + 2]

\* tempfile.mkdtemp(prefix=prefix), after n calls of it: a directory named
\* prefix + suffix is made, or OSError is raised.  The suffix d stands for
\* the random part of the name; the path of the directory is <<d>>.
TempfileMkdtemp(f, prefix, d, ok, n) ==
    IF ok
    THEN [raised |-> "none", path |-> <<d>>, base |-> [prefix |-> prefix, suffix |-> d],
          fs |-> MkdTemp(f, d), mkdtemp |-> n + 1]
    ELSE [raised |-> "OSError", path |-> NoPath, base |-> [prefix |-> <<>>, suffix |-> ""],
          fs |-> f, mkdtemp |-> n + 1]

\* windows_cleanup.create_safe_tempdir(prefix)
WinCreateSafeTempdir(f, prefix, d, ok, sys_win) ==
    TempfileMkdtemp(f, Truncated(prefix, sys_win), d, ok, 0)

\* PlatformAdapter.create_safe_tempdir(prefix); sys.platform starts with
\* 'win' on the hosts where platform.system() is Windows
PlatformCreateSafeTempdir(f, prefix, d, ok, is_windows) ==
    IF ~is_windows THEN TempfileMkdtemp(f, prefix, d, ok, 0)
    ELSE WinCreateSafeTempdir(f, prefix, d, ok, is_windows)

\* self.prefix of a handle built with the defaults
HandlePrefix(h) == PrefixOf(IF h.form = "std" THEN StdPrefixLen ELSE DefaultPrefixLen)

\* the handle once create_safe_tempdir has returned or raised
AllocateAfter(h, c) ==
    IF c.raised # "none" THEN Quiet([h EXCEPT !.res = OpRes("enter", c.raised, "None")], c.fs)
    ELSE Quiet([h EXCEPT !.name = c.path, !.created = Append(@, c.path),
                         !.res = OpRes("enter", "none", "path")],
               c.fs)

\* a variant of the open that does not keep the directory it created
AllocateUnrecorded(h, f, d, ok, is_windows) ==
    IF ~ok THEN Quiet([h EXCEPT !.res = OpRes("enter", "OSError", "None")], f)
    ELSE Quiet([h EXCEPT !.name = <<d>>, !.res = OpRes("enter", "none", "path")], MkdTemp(f, d))

\* self.name = self.platform_adapter.create_safe_tempdir(prefix=self.prefix);
\* ok is whether mkdtemp goes through
Allocate(h, f, d, ok, is_windows) ==
    AllocateAfter(h, PlatformCreateSafeTempdir(f, HandlePrefix(h), d, ok, is_windows))

\* a variant of __enter__ / create without the check of the path field
EnterUnchecked(h, f, d, ok, is_windows) == Allocate(h, f, d, ok, is_windows)

\* SafeTemporaryDirectory.__enter__, SafeTempDir.create / __enter__, and
\* safe_temp_directory up to its yield
Enter(h, f, d, ok, is_windows) ==
    IF h.form # "ctx" /\ h.name # NoPath
    THEN Quiet([h EXCEPT !.res = OpRes("enter", "RuntimeError", "None")], f)
    ELSE Allocate(h, f, d, ok, is_windows)

\* __del__ of the two classes: if the path is not None: self.cleanup(); an
\* exception that leaves __del__ is dropped by the interpreter
Finalize(w) == [w EXCEPT !.h.alive = FALSE, !.h.res = OpRes("del", "none", "None")]

\* a variant of __del__ that does not call cleanup
DelSkipsCleanup(h, f, c, order, is_windows) == Finalize(Quiet(h, f))

Del(h, f, c, order, is_windows) ==
    IF h.name = NoPath THEN Finalize(Quiet(h, f)) ELSE Finalize(Cleanup(h, f, c, order, is_windows))

(***************************************************************************)
(* The handle as a state machine: one handle of one form on one host.      *)
(***************************************************************************)
HandleInit ==
    /\ fs = EmptyFs
    /\ stats = ZeroStats
    /\ cleaner = [mr |-> DefaultMaxRetries, md |-> DefaultMaxDepth]
    /\ last = NoCall
    /\ calls = 0
    /\ platform \in {"windows", "posix"}
    /\ handle \in {NewHandle("ctx", FALSE, TRUE), NewHandle("ctx", FALSE, FALSE),
                   NewHandle("std", FALSE, FALSE), NewHandle("std", TRUE, FALSE),
                   NewHandle("tmp", FALSE, FALSE)}
    /\ scope = NoScope
    /\ patch = Unpatched
    /\ snap = NoSnapshot

\* an operation on the handle returns
Done(w) ==
    /\ handle' = w.h
    /\ fs' = w.fs
    /\ last' = IF w.called THEN CallRecord("platform", w.path, w.ignore, w.r) ELSE last
    /\ UNCHANGED <<stats, cleaner, calls, platform, snap, patch>>

\* mkdtemp may go through when the handle has directories left to create
CanAllocate(d, ok) ==
    ok => ~Exists(fs, <<d>>) /\ Len(handle.created) < MaxCreates

\* the scope a with statement is in once __enter__ has returned or raised
Entered(w) ==
    IF w.h.res.raised = "none" THEN Scope("body", w.h.name, "none", "none")
    ELSE Scope("exited", NoPath, "none", w.h.res.raised)

\* with handle as path: __enter__
WithEnter(d, ok) ==
    /\ handle.alive /\ scope.pc # "body"
    /\ handle.form = "ctx" => scope.pc = "idle"
    /\ CanAllocate(d, ok)
    /\ Done(Enter(handle, fs, d, ok, platform = "windows"))
    /\ scope' = Entered(Enter(handle, fs, d, ok, platform = "windows"))

\* a variant of the with statement whose __exit__ swallows the body's exception
LeavesOnlyExitError(w, exc) == w.h.res.raised

\* the exception that leaves the with statement: the one __exit__ raised, or
\* else the one the body raised
Leaves(w, exc) == IF w.h.res.raised # "none" THEN w.h.res.raised ELSE exc

\* the body returns (exc = "none") or raises, and __exit__ runs
WithExit(exc, order) ==
    /\ scope.pc = "body"
    /\ Done(Exit(handle, fs, stats, order, platform = "windows"))
    /\ scope' = Scope("exited", scope.path, exc,
                      Leaves(Exit(handle, fs, stats, order, platform = "windows"), exc))

\* handle.__enter__() / handle.create() called as a method
CreateCall(d, ok) ==
    /\ handle.alive /\ handle.form # "ctx"
    /\ CanAllocate(d, ok)
    /\ Done(Enter(handle, fs, d, ok, platform = "windows"))
    /\ UNCHANGED scope

\* handle.cleanup() called as a method
CleanupCall(order) ==
    /\ handle.alive /\ handle.form # "ctx"
    /\ Done(Cleanup(handle, fs, stats, order, platform = "windows"))
    /\ UNCHANGED scope

\* the handle is garbage-collected: __del__
DelCall(order) ==
    /\ handle.alive /\ handle.form # "ctx" /\ scope.pc # "body"
    /\ Done(Del(handle, fs, stats, order, platform = "windows"))
    /\ UNCHANGED scope

\* the body of the with statement stages entries in its directory
BodyPopulate ==
    /\ scope.pc = "body"
    /\ \E p \in {q \in Subtree(scope.path) : Len(q) = Len(scope.path) + 1} :
           WriteFile(p) \/ MakeDir(p)

\* the environment, while the body runs
BodyPathology == scope.pc = "body" /\ Pathology

HandleNext ==
    \/ \E d \in DirNames, ok \in BOOLEAN : WithEnter(d, ok) \/ CreateCall(d, ok)
    \/ \E exc \in {"none", "BodyError"}, order \in Orders : WithExit(exc, order)
    \/ \E order \in Orders : CleanupCall(order) \/ DelCall(order)
    \/ BodyPopulate
    \/ BodyPathology

HandleSpec == HandleInit /\ [][HandleNext]_vars

(***************************************************************************)
(* Properties of the scoped handles, checked under HandleSpec.             *)
(***************************************************************************)
\* a handle that cleans up at scope exit: every one but
\* safe_temp_directory(auto_cleanup=False)
CleansAtExit == handle.form = "ctx" => handle.auto

\* SafeTemporaryDirectory(ignore_cleanup_errors=False)
Strict == handle.form = "std" /\ handle.strict

Removed(f, p) == \A q \in Subtree(p) : ~Exists(f, q)

\* the body raises while the handle still holds the directory of the scope
BodyRaises(order) ==
    /\ CleansAtExit
    /\ handle.name = scope.path
    /\ WithExit("BodyError", order)

\* C6: whether the body returns or raises, control leaves the scope of
\* safe_temp_directory (auto_cleanup=True), SafeTemporaryDirectory and
\* SafeTempDir only once safe_rmtree has been called on the created path: by
\* the exit itself if the handle still holds the path, by the body before.
C6_TeardownOnEveryExit ==
    [][\A exc \in {"none", "BodyError"}, order \in Orders :
          (CleansAtExit /\ WithExit(exc, order))
          => /\ handle'.name = NoPath
             /\ IF handle.name = scope.path
                THEN /\ handle'.torn = Append(handle.torn, scope.path)
                     /\ last'.api = "platform" /\ last'.path = scope.path
                ELSE \E i \in 1..Len(handle.torn) : handle.torn[i] = scope.path]_vars

\* the body of a safe_temp_directory raised and the directory was torn down
C6_Witness ==
    /\ handle.form = "ctx" /\ handle.auto
    /\ scope.pc = "exited" /\ scope.bodyExc = "BodyError"
    /\ handle.torn = <<scope.path>> /\ last.path = scope.path

C8_TeardownNeverMasksBodyError ==
    [][\A order \in Orders :
          (/\ WithExit("BodyError", order)
           /\ handle'.torn # handle.torn /\ ~last'.value)
          => scope'.callerExc = "BodyError"]_vars

\* C8, amended: the same for every handle form but the strict
\* SafeTemporaryDirectory (ignore_cleanup_errors=False).
C8_TeardownNeverMasksBodyErrorUnlessStrict ==
    [][\A order \in Orders :
          (/\ ~Strict
           /\ WithExit("BodyError", order)
           /\ handle'.torn # handle.torn /\ ~last'.value)
          => scope'.callerExc = "BodyError"]_vars

\* the body raised, the teardown of the exit failed, and the caller got the
\* body's exception
C8_Witness ==
    /\ scope.pc = "exited"
    /\ scope.bodyExc = "BodyError" /\ scope.callerExc = "BodyError"
    /\ handle.torn = <<scope.path>> /\ last.path = scope.path /\ ~last.value
    /\ Exists(fs, scope.path)

\* C9: on a SafeTemporaryDirectory and on a SafeTempDir, safe_rmtree has been
\* called once for each directory the handle created and no longer holds,
\* never for the one it holds, and once for every directory it created when
\* the handle has been finalized.
C9_OneTeardownPerDirectory ==
    handle.form \in {"std", "tmp"}
    => /\ IF handle.name = NoPath THEN handle.torn = handle.created
          ELSE handle.created = Append(handle.torn, handle.name)
       /\ ~handle.alive => handle.torn = handle.created

\* a handle opened by a method call, never used in a with statement, has
\* been finalized
C9_Witness ==
    /\ handle.form \in {"std", "tmp"}
    /\ ~handle.alive /\ scope.pc = "idle"
    /\ handle.created # <<>> /\ handle.torn = handle.created
    /\ last.path = handle.created[Len(handle.created)]

\* C10: cleanup() on a handle that holds no directory calls nothing, raises
\* nothing, leaves the handle and the filesystem as they were and, on a
\* SafeTempDir, returns True.
C10_CleanupWithoutDirectoryIsNoOp ==
    [][\A order \in Orders :
          (handle.name = NoPath /\ CleanupCall(order))
          => /\ fs' = fs
             /\ last' = last
             /\ handle'.res.raised = "none"
             /\ handle.form = "tmp" => handle'.res.value = "True"
             /\ [handle' EXCEPT !.res = handle.res] = handle]_vars

\* cleanup() returned True on a SafeTempDir that was never opened
C10_Witness ==
    /\ handle.form = "tmp" /\ handle.created = <<>>
    /\ handle.res = OpRes("cleanup", "none", "True")

\* the handle is opened, in a with statement or by a method call
Opens(d, ok) == WithEnter(d, ok) \/ CreateCall(d, ok)

\* C11: __enter__ on a SafeTemporaryDirectory and create on a SafeTempDir
\* that hold a directory raise RuntimeError, create nothing, and leave the
\* handle holding the path it held.
C11_OpenWhileActiveFails ==
    [][\A d \in DirNames, ok \in BOOLEAN :
          (/\ handle.form \in {"std", "tmp"}
           /\ handle.name # NoPath
           /\ Opens(d, ok))
          => /\ handle'.res = OpRes("enter", "RuntimeError", "None")
             /\ fs' = fs
             /\ [handle' EXCEPT !.res = handle.res] = handle]_vars

\* a handle that holds an existing directory has refused to be opened again
C11_Witness ==
    /\ handle.form \in {"std", "tmp"}
    /\ handle.res = OpRes("enter", "RuntimeError", "None")
    /\ handle.name # NoPath /\ IsDir(fs, handle.name)
    /\ handle.created = <<handle.name>>

\* the handle has called teardown and holds no path
TornDown == handle.name = NoPath /\ handle.torn # <<>>

\* C12 as stated: a handle that has been torn down never holds a path again
\* and creates no other directory.
C12_TornDownIsTerminal ==
    [][TornDown => (handle'.name = NoPath /\ handle'.created = handle.created)]_vars

\* C12, amended: a torn-down handle stays torn down under cleanup(),
\* __exit__ and __del__; the one step that makes it active again is a
\* successful __enter__ / create of a SafeTemporaryDirectory or SafeTempDir
\* that has not been finalized, and it gives the handle a directory that was
\* not there before.
C12_TornDownLeftOnlyByOpening ==
    [][(TornDown /\ (handle'.name # NoPath \/ handle'.created # handle.created))
          => /\ handle.form \in {"std", "tmp"} /\ handle.alive
             /\ \E d \in DirNames : Opens(d, TRUE)
             /\ handle'.res = OpRes("enter", "none", "path")
             /\ handle'.created = Append(handle.created, handle'.name)
             /\ handle'.torn = handle.torn
             /\ ~Exists(fs, handle'.name) /\ IsDir(fs', handle'.name)]_vars

\* a SafeTempDir that was torn down holds a second directory
C12_Witness ==
    /\ handle.form = "tmp"
    /\ Len(handle.created) = 2 /\ handle.torn = <<handle.created[1]>>
    /\ handle.name = handle.created[2] /\ IsDir(fs, handle.name)

\* C13: a SafeTemporaryDirectory whose last operation was cleanup(), called
\* as a method or by __exit__, can be entered again: when mkdtemp goes
\* through, __enter__ returns the path of a directory that was not there
\* before, that exists and that is empty.
C13_ReenterAfterCleanup ==
    [][\A d \in DirNames :
          (/\ handle.form = "std"
           /\ handle.res.op = "cleanup"
           /\ Opens(d, TRUE))
          => /\ handle'.res = OpRes("enter", "none", "path")
             /\ handle'.name = <<d>>
             /\ ~Exists(fs, <<d>>)
             /\ IsDir(fs', <<d>>) /\ ChildrenOf(fs', <<d>>) = {}]_vars

\* a SafeTemporaryDirectory entered, cleaned up and entered again
C13_Witness ==
    /\ handle.form = "std"
    /\ Len(handle.created) = 2 /\ Len(handle.torn) = 1
    /\ handle.res = OpRes("enter", "none", "path")
    /\ handle.name = handle.created[2] /\ IsDir(fs, handle.name)
    /\ scope.pc = "body" /\ scope.path = handle.name

\* C14: safe_rmtree of the platform adapter, called on a path that does not
\* exist, returns True for both values of ignore_errors on both branches.
C14_PlatformMissingPathReturnsTrue ==
    [][\A p \in CallTargets, ignore_errors \in BOOLEAN, order \in Orders :
          (~Exists(fs, p) /\ PlatformCall(p, ignore_errors, order))
          => (last'.value /\ ~last'.raised)]_vars

\* the directories of the tree at p that lie deeper than max_depth
TooDeepDirs(f, p, md) == {q \in Subtree(p) : IsDir(f, q) /\ Len(q) - Len(p) > md}

\* every directory from p down to the parent of q can be listed
ListableDown(f, p, q) == \A k \in Len(p)..(Len(q) - 1) : ~f[SubSeq(q, 1, k)].nolist

\* the error of the depth check
DepthError(e) == e.type = "WindowsCleanupError" /\ e.op = "depth"

\* what _manual_rmtree(p), run from filesystem f, has left in s: no
\* directory deeper than max_depth was touched; if one of them could be
\* reached the run has failed, with the depth error unless an entry resisted
\* removal first; and a depth error names a directory one level below
\* max_depth
DepthGuarded(s, f, p, md) ==
    /\ \A q \in TooDeepDirs(f, p, md) : s.fs[q] = f[q]
    /\ (\E q \in TooDeepDirs(f, p, md) : ListableDown(f, p, q))
       => /\ ~Ok(s)
          /\ (\A q \in Subtree(p) : ~f[q].ro /\ f[q].busy = 0 /\ ~f[q].stuck) => DepthError(s.err)
    /\ DepthError(s.err) => /\ s.err.path \in TooDeepDirs(f, p, md)
                            /\ Len(s.err.path) - Len(p) = md + 1

\* C15: _manual_rmtree visits the root at depth 0 and a child directory at
\* depth + 1; a visit at a depth greater than max_depth raises the depth
\* error and touches nothing, so that no directory deeper than max_depth is
\* listed or removed and a tree with a reachable directory that deep makes
\* the strategy fail; and when the depth error is the third cause of a call
\* the call has failed: False under ignore_errors, the composite error
\* otherwise.
C15_DepthGuard ==
    /\ \A p \in AllPaths, depth \in 0..(MaxNest + 1), order \in Orders :
          depth > cleaner.md
          => ManualRmtree(Exec(fs, stats), p, depth,
                          [mr |-> cleaner.mr, md |-> cleaner.md, order |-> order])
             = Raise(Exec(fs, stats), Err("WindowsCleanupError", "depth", p))
    /\ \A p \in CallTargets, order \in Orders :
          DepthGuarded(ManualRmtree(Exec(fs, stats), p, 0,
                                    [mr |-> cleaner.mr, md |-> cleaner.md, order |-> order]),
                       fs, p, cleaner.md)
    /\ (last.api = "cleaner" /\ Len(last.causes) = 3 /\ DepthError(last.causes[3]))
       => /\ ~last.value
          /\ last.raised <=> ~last.ignore
          /\ IsDir(fs, last.causes[3].path)

\* the depth error was the third cause of a call that failed
C15_Witness ==
    /\ last.api = "cleaner" /\ last.started = Strategies
    /\ Len(last.causes) = 3 /\ DepthError(last.causes[3])
    /\ ~last.value
    /\ Len(last.causes[3].path) - Len(last.path) = cleaner.md + 1

\* C16: with the defaults (safe_temp_directory, SafeTemporaryDirectory with
\* ignore_cleanup_errors=True, SafeTempDir) every teardown is a call of
\* safe_rmtree with ignore_errors=True on the path the handle holds, and
\* nothing is raised by it or by the operation that made it; when it fails,
\* the directory is still on disk and what leaves a with statement is what
\* its body raised.
C16_DefaultTeardownFailureIsNotRaised ==
    [][(~Strict /\ handle'.torn # handle.torn)
          => /\ last'.api = "platform" /\ last'.path = handle.name
             /\ last'.ignore /\ ~last'.raised
             /\ handle'.res.raised = "none"
             /\ scope'.pc # scope.pc => scope'.callerExc = scope'.bodyExc
             /\ ~last'.value => IsDir(fs', last'.path)]_vars

\* cleanup() of a default SafeTemporaryDirectory returned although the
\* teardown failed and the directory is still there
C16_Witness ==
    /\ handle.form = "std" /\ ~handle.strict
    /\ handle.res = OpRes("cleanup", "none", "None")
    /\ handle.name = NoPath /\ handle.torn = handle.created
    /\ last.ignore /\ ~last.value /\ ~last.raised
    /\ last.path = handle.torn[Len(handle.torn)] /\ IsDir(fs, last.path)

\* C17: on a SafeTemporaryDirectory with ignore_cleanup_errors=False, a
\* cleanup(), called as a method or by __exit__, that leaves the directory
\* of the handle on disk raises to its caller.
C17_StrictFailureIsRaised ==
    [][\A order \in Orders :
          (/\ Strict /\ handle.name # NoPath
           /\ CleanupCall(order) \/ \E exc \in {"none", "BodyError"} : WithExit(exc, order)
           /\ Exists(fs', handle.name))
          => handle'.res.raised # "none"]_vars

(***************************************************************************)
(* Allocation as a state machine: MaxHandles handles of the two classes    *)
(* and a caller of the module functions share one filesystem.  Under this  *)
(* specification `handle` is the function from a handle's number to the    *)
(* handle, and `scope` holds what the caller of the module functions has:  *)
(* the paths create_safe_tempdir gave it and it has not torn down, and the *)
(* most recent creation.                                                   *)
(***************************************************************************)
\* number of handles that are live together
MaxHandles == 2
\* longest prefix a caller passes to create_safe_tempdir
MaxPrefixLen == 21
\* number of directories one handle of the pool creates
MaxPoolCreates == 1

HandleIds == 1..MaxHandles

\* a directory of the pool holds one entry at most, so that the order in
\* which a listing returns its entries makes no difference
PoolOrder == <<"a", "s">>

PrefixLens == {DefaultPrefixLen, PrefixLimit, MaxPrefixLen}

\* the handles of the pool: SafeTemporaryDirectory at the odd numbers, with
\* either value of ignore_cleanup_errors, and SafeTempDir at the even ones
HandlesOf(i) ==
    IF i % 2 = 1 THEN {NewHandle("std", FALSE, FALSE), NewHandle("std", TRUE, FALSE)}
    ELSE {NewHandle("tmp", FALSE, FALSE)}

\* a creation: the function called, the prefix it was given and what
\* mkdtemp made of it
Made(api, prefix, c) == [prefix |-> prefix, c |-> c]

NoMade == Made("none", <<>>, TempfileMkdtemp(EmptyFs, <<>>, "", FALSE, 0))

PoolInit ==
    /\ fs = EmptyFs
    /\ stats = ZeroStats
    /\ cleaner = [mr |-> DefaultMaxRetries, md |-> DefaultMaxDepth]
    /\ last = NoCall
    /\ calls = 0
    /\ platform \in {"windows", "posix"}
    /\ handle \in {h \in [HandleIds -> UNION {HandlesOf(i) : i \in HandleIds}] :
                        \A i \in HandleIds : h[i] \in HandlesOf(i)}
    /\ scope = [owned |-> {}, made |-> NoMade]
    /\ patch = Unpatched
    /\ snap = NoSnapshot

\* an operation on handle i returns
PoolDone(i, w, made) ==
    /\ handle' = [handle EXCEPT ![i] = w.h]
    /\ fs' = w.fs
    /\ last' = IF w.called THEN CallRecord("platform", w.path, w.ignore, w.r) ELSE last
    /\ scope' = [scope EXCEPT !.made = made]
    /\ UNCHANGED <<stats, cleaner, calls, platform, snap, patch>>

\* mkdtemp goes through only with a name that is not in use
NameFree(d, ok) == ok => ~Exists(fs, <<d>>)

\* handle i: __enter__() / create()
PoolOpen(i, d) ==
    /\ handle[i].alive /\ handle[i].name = NoPath
    /\ NameFree(d, TRUE) /\ Len(handle[i].created) < MaxPoolCreates
    /\ PoolDone(i, Enter(handle[i], fs, d, TRUE, platform = "windows"),
                Made("handle", HandlePrefix(handle[i]),
                     PlatformCreateSafeTempdir(fs, HandlePrefix(handle[i]), d, TRUE,
                                               platform = "windows")))

\* handle i: cleanup() / __exit__
PoolCleanup(i) ==
    /\ handle[i].alive /\ handle[i].name # NoPath
    /\ PoolDone(i, Cleanup(handle[i], fs, stats, PoolOrder, platform = "windows"), scope.made)

\* the module function a caller reaches: platform_utils.create_safe_tempdir
\* or windows_cleanup.create_safe_tempdir
CreateSafeTempdir(api, prefix, d, ok) ==
    IF api = "platform"
    THEN PlatformCreateSafeTempdir(fs, prefix, d, ok, platform = "windows")
    ELSE WinCreateSafeTempdir(fs, prefix, d, ok, platform = "windows")

\* the caller holds the path a creation returned
Owned(c) == IF c.raised = "none" THEN scope.owned \cup {c.path} ELSE scope.owned

\* temp_dir = create_safe_tempdir(prefix)
DirectCreate(api, n, d, ok) ==
    /\ NameFree(d, ok)
    /\ fs' = CreateSafeTempdir(api, PrefixOf(n), d, ok).fs
    /\ scope' = [owned |-> Owned(CreateSafeTempdir(api, PrefixOf(n), d, ok)),
                 made |-> Made(api, PrefixOf(n), CreateSafeTempdir(api, PrefixOf(n), d, ok))]
    /\ UNCHANGED <<stats, cleaner, last, calls, platform, snap, patch, handle>>

\* safe_rmtree(temp_dir, ignore_errors=True) on a path the caller holds
DirectRmtree(p) ==
    /\ p \in scope.owned
    /\ fs' = PlatformSafeRmtree(Exec(fs, stats), p, TRUE, PoolOrder, platform = "windows").st.fs
    /\ last' = CallRecord("platform", p, TRUE,
                          PlatformSafeRmtree(Exec(fs, stats), p, TRUE, PoolOrder,
                                             platform = "windows"))
    /\ scope' = [scope EXCEPT !.owned = @ \ {p}]
    /\ UNCHANGED <<stats, cleaner, calls, platform, snap, patch, handle>>

\* the paths that are held: by a handle or by the caller of the functions
Held == {handle[i].name : i \in {j \in HandleIds : handle[j].name # NoPath}} \cup scope.owned

\* a holder writes a file into its directory
PoolStage == \E p \in Held : WriteFile(Append(p, "a"))

\* the environment: a staged file cannot be removed, a directory not listed
PoolFault == \E p \in Held : LockForever(Append(p, "a")) \/ DenyListing(p)

PoolNext ==
    \/ \E i \in HandleIds, d \in DirNames : PoolOpen(i, d)
    \/ \E i \in HandleIds : PoolCleanup(i)
    \/ \E api \in {"platform", "windows_cleanup"}, n \in PrefixLens, d \in DirNames,
          ok \in BOOLEAN : DirectCreate(api, n, d, ok)
    \/ \E p \in CallTargets : DirectRmtree(p)
    \/ PoolStage
    \/ PoolFault

PoolSpec == PoolInit /\ [][PoolNext]_vars

(***************************************************************************)
(* Properties of allocation, checked under PoolSpec.                       *)
(***************************************************************************)
\* the path p has just been returned: it is an empty directory that was not
\* on disk and that no one held
Fresh(p) ==
    /\ p # NoPath /\ p \notin Held /\ ~Exists(fs, p)
    /\ IsDir(fs', p) /\ ChildrenOf(fs', p) = {}

\* no two holders hold the same path, and what is held is a directory
Unique ==
    /\ \A i, j \in HandleIds : i # j /\ handle[i].name # NoPath => handle[i].name # handle[j].name
    /\ \A i \in HandleIds : handle[i].name \notin scope.owned
    /\ \A p \in Held : IsDir(fs, p)

\* C18: a path returned by create_safe_tempdir, to a handle that opens or to
\* a caller of the function, is an empty directory that did not exist and
\* that no one held; after every create and every teardown no two handles,
\* and no handle and the caller, hold the same path.
C18_CreatedIsFreshAndUnique ==
    [][/\ \A i \in HandleIds, d \in DirNames : PoolOpen(i, d) => Fresh(handle'[i].name)
       /\ \A api \in {"platform", "windows_cleanup"}, n \in PrefixLens, d \in DirNames :
              DirectCreate(api, n, d, TRUE) => Fresh(scope'.made.c.path)
       /\ Unique']_vars

\* a handle holds the name another handle held and tore down, while the
\* caller of the function holds a directory of its own
C18_Witness ==
    /\ handle[1].torn # <<>>
    /\ handle[2].name # NoPath /\ handle[2].name = handle[1].torn[1]
    /\ scope.owned # {} /\ Unique

\* C19: the base name of a created directory is the prefix followed by the
\* part mkdtemp chooses, and the prefix is the caller's, cut to its first
\* PrefixLimit characters only on Windows and only when it is longer.
C19_PrefixInBaseName ==
    scope.made.c.raised = "none" =>
        /\ scope.made.c.path = <<scope.made.c.base.suffix>>
        /\ scope.made.c.base.prefix =
              IF platform = "windows" /\ Len(scope.made.prefix) > PrefixLimit
              THEN [i \in 1..PrefixLimit |-> scope.made.prefix[i]]
              ELSE scope.made.prefix

\* on Windows a prefix longer than the limit has been cut to the limit
C19_Witness ==
    /\ platform = "windows" /\ scope.made.c.raised = "none"
    /\ Len(scope.made.prefix) > PrefixLimit
    /\ Len(scope.made.c.base.prefix) = PrefixLimit

(***************************************************************************)
(* Allocation failure, checked under HandleSpec.                           *)
(***************************************************************************)
\* the last operation on the handle was an open that mkdtemp made fail
AllocationFailed ==
    handle.name = NoPath /\ handle.res.op = "enter" /\ handle.res.raised = "OSError"

\* C20: when mkdtemp fails in an open, mkdtemp has been called once, the
\* OSError reaches the caller (and leaves the with statement, whose body
\* does not run), the handle holds no path and has recorded no directory,
\* nothing on disk has changed and safe_rmtree has not been called; a
\* cleanup() or the finalizer that follows calls no safe_rmtree either.
C20_AllocationFailureIsFatal ==
    [][/\ \A d \in DirNames :
              (handle.name = NoPath /\ Opens(d, FALSE)) =>
                  /\ PlatformCreateSafeTempdir(fs, HandlePrefix(handle), d, FALSE,
                                               platform = "windows").mkdtemp = 1
                  /\ AllocationFailed'
                  /\ handle'.created = handle.created /\ handle'.torn = handle.torn
                  /\ fs' = fs /\ last' = last
                  /\ scope' # scope =>
                         /\ scope'.pc = "exited" /\ scope'.callerExc = "OSError"
                         /\ scope'.path = NoPath
       /\ \A order \in Orders :
              (AllocationFailed /\ (CleanupCall(order) \/ DelCall(order))) =>
                  /\ handle'.res.raised = "none" /\ handle'.name = NoPath
                  /\ handle'.torn = handle.torn /\ fs' = fs /\ last' = last]_vars

\* a with statement whose open failed has let the OSError out, on a handle
\* that had torn a directory down before
C20_Witness ==
    /\ AllocationFailed
    /\ scope.pc = "exited" /\ scope.callerExc = "OSError"
    /\ handle.torn # <<>>

(***************************************************************************)
(* More properties of the teardown engine, checked under Spec.             *)
(***************************************************************************)
\* the call `last` reported a failure: it returned False or raised
ReportedFailure == last.api # "none" /\ (last.raised \/ ~last.value)

\* `last` went through the non-Windows branch of PlatformAdapter.safe_rmtree
StandardCall == last.api = "platform" /\ platform # "windows"

\* C21: a call through the non-Windows branch of PlatformAdapter.safe_rmtree
\* that reports a failure on a directory has started MANUAL_RECURSIVE before
\* reporting it.
C21_NonWindowsFallsThrough ==
    (StandardCall /\ ReportedFailure /\ IsDir(fs, last.path))
    => \E i \in 1..Len(last.started) : last.started[i] = "MANUAL_RECURSIVE"

\* C21 as amended: the non-Windows branch runs the native delete and nothing
\* else, and reports its failure, with its one cause, as soon as it fails;
\* a call of the cleaner reports a failure only after MANUAL_RECURSIVE.
C21_NonWindowsBranchIsNativeOnly ==
    /\ StandardCall
       => /\ last.started = <<"STANDARD">>
          /\ ReportedFailure <=> Len(last.causes) = 1
          /\ ReportedFailure => last.raised = ~last.ignore
    /\ (EngineCall /\ ReportedFailure)
       => last.started[Len(last.started)] = "MANUAL_RECURSIVE"

\* the native delete failed on the non-Windows branch and the directory is
\* still there
C21_Witness ==
    /\ StandardCall /\ ReportedFailure
    /\ IsDir(fs, last.path) /\ ChildrenOf(fs, last.path) # {}

\* the tree at p is a directory of ordinary entries: nothing in it is
\* read-only, locked or unlistable
Ordinary(f, p) ==
    /\ IsDir(f, p)
    /\ \A q \in Subtree(p) : Exists(f, q) => ~Blocked(f[q]) /\ ~f[q].nolist

\* the call r returned True and nothing of the tree at p is left
RemovedBy(r, p) ==
    /\ ~r.raised /\ r.value
    /\ \A q \in Subtree(p) : ~Exists(r.st.fs, q)

\* C22: on a directory of ordinary files and subdirectories, teardown with
\* ignore_errors=False returns True and leaves nothing of the tree: for
\* safe_windows_rmtree, whatever the host, and for every call of the
\* platform-level safe_rmtree, on either host.
C22_OrdinaryTreeIsRemoved ==
    [][\A p \in CallTargets, order \in Orders :
          Ordinary(fs, p) =>
              /\ RemovedBy(SafeWindowsRmtree(Exec(fs, stats), p, FALSE, order), p)
              /\ PlatformCall(p, FALSE, order)
                 => /\ last'.value /\ ~last'.raised /\ last'.causes = <<>>
                    /\ \A q \in Subtree(p) : ~Exists(fs', q)]_vars

\* the platform-level safe_rmtree has removed the scratch directory in a
\* first call with ignore_errors=False
C22_Witness ==
    /\ last.api = "platform" /\ ~last.ignore /\ calls = 1
    /\ last.value /\ ~last.raised /\ last.causes = <<>>
    /\ last.started # <<>>
    /\ ~Exists(fs, last.path)

\* the configuration of the cleaner, with the order a listing comes in
Cfg(order) == [mr |-> cleaner.mr, md |-> cleaner.md, order |-> order]

\* the operation shutil.rmtree makes on the entry p
RmtreeOp(f, p) == IF IsFile(f, p) THEN "unlink" ELSE IF f[p].nolist THEN "scandir" ELSE "rmdir"

\* retry_on_error called by shutil.rmtree with the failure s0 of op at p
Intercepted(s0, op, p, cfg) == RetryOnError(Clear(s0), op, p, s0.err, cfg)

\* the attempts a transient lock on p resists once n retries have been made
\* on it: a retry is a removal attempt, unless it is a listing, and wears
\* the lock down by one, unless p is locked for good
LockLeft(f, p, n) ==
    IF f[p].stuck \/ RmtreeOp(f, p) = "scandir" THEN f[p].busy
    ELSE IF f[p].busy > n THEN f[p].busy - n ELSE 0

\* what the interceptor leaves (r) of a failure (s0) of an operation at p,
\* b being the number of attempts a transient lock on p still resists:
\* nothing but p has changed; p is no longer read-only; the b + 1st retry is
\* the first that can go through, and it is made only if b < max_retries; a
\* retry that goes through is counted once and ends the handler; otherwise
\* max_retries retries have been made and the error of the last is raised
Retried(s0, r, p, b, mr) ==
    /\ \A q \in AllPaths \ {p} : r.fs[q] = s0.fs[q]
    /\ Exists(r.fs, p) => ~r.fs[p].ro
    /\ Ok(r) <=> ~Exists(r.fs, p)
    /\ Ok(r) => b < mr /\ r.stats = [s0.stats EXCEPT !.retries_used = @ + 1]
    /\ ~Ok(r) => /\ r.err.path = p /\ IsOSError(r.err)
                 /\ r.stats = s0.stats
                 /\ r.fs[p].busy = LockLeft(s0.fs, p, mr)
                 /\ b < mr => r.fs[p].stuck \/ ChildrenOf(r.fs, p) # {} \/ r.fs[p].nolist

\* the interceptor on the first failure of rmtree's operation at p
RetriedAt(s0, p, cfg) ==
    ~Ok(s0) => Retried(s0, Intercepted(s0, RmtreeOp(s0.fs, p), p, cfg), p, s0.fs[p].busy, cfg.mr)

\* RETRY_STANDARD as a whole (w) on the tree at p: it goes through only when
\* nothing of the tree is left, and it aborts with the error of an entry of
\* the tree that is still there
RetryStrategy(w, p) ==
    IF Ok(w) THEN \A q \in Subtree(p) : ~Exists(w.fs, q)
    ELSE w.err.path \in Subtree(p) /\ Exists(w.fs, w.err.path) /\ IsOSError(w.err)

\* C23: for a cleaner whose max_retries is positive, in RETRY_STANDARD an
\* operation that fails at P is retried on P alone, after the read-only
\* attribute of P has been cleared, at most max_retries times; a retry that
\* goes through lets the walk go on; when max_retries retries have failed
\* the strategy aborts with the error of the last one.
C23_RetryStandardInterceptor ==
    cleaner.mr >= 1 =>
        \A order \in Orders :
            /\ \A p \in AllPaths :
                   Exists(fs, p) =>
                       RetriedAt(Apply(RmtreeOp(fs, p), Exec(fs, stats), p, order), p, Cfg(order))
            /\ \A p \in CallTargets :
                   IsDir(fs, p) => RetryStrategy(RmtreeWithRetries(Exec(fs, stats), p, Cfg(order)), p)

\* a call went through in RETRY_STANDARD with a retry that succeeded
C23_Witness ==
    /\ last.api = "cleaner" /\ cleaner.mr >= 1
    /\ last.started = <<"RETRY_STANDARD">> /\ last.value
    /\ stats.retries_used >= 1
    /\ ~Exists(fs, last.path)

\* another process removes the entry q, with what is below it, while a
\* strategy is at work
Vanished(f, q) == [x \in AllPaths |-> IF x \in Subtree(q) THEN NoEntry ELSE f[x]]

\* MANUAL_RECURSIVE on the directory p, whose child q vanishes after
\* os.listdir(p) has returned and before the loop visits it
ManualAfterVanish(f, c, p, q, cfg) ==
    ManualListed(Start(Exec(Vanished(f, q), c), "MANUAL_RECURSIVE"), Listdir(f, p, cfg.order),
                 p, 0, cfg)

\* C24: in MANUAL_RECURSIVE, on a tree of ordinary entries no deeper than
\* max_depth and with max_retries positive, a visit of a path that is not
\* there goes through: the root, and a child file or child directory that
\* vanished after its parent was listed; the strategy then removes the rest.
C24_VanishedIsAlreadyRemoved ==
    (cleaner.mr >= 1) =>
        \A order \in Orders, p \in CallTargets :
            /\ ~Exists(fs, p) => ManualRmtree(Exec(fs, stats), p, 0, Cfg(order)) = Exec(fs, stats)
            /\ (Ordinary(fs, p) /\ TreeDepth(fs, p) <= cleaner.md)
               => \A q \in ChildrenOf(fs, p) :
                      /\ Ok(ManualAfterVanish(fs, stats, p, q, Cfg(order)))
                      /\ ~Exists(ManualAfterVanish(fs, stats, p, q, Cfg(order)).fs, p)

\* force_remove_readonly called by shutil.rmtree with the failure s0 of op at p
Forced(s0, op, p, cfg) == ForceRemoveReadonly(Clear(s0), op, p, cfg)

\* C25: the interceptor of pass B of FORCE_ATTRIBUTE does on a failed
\* operation what the interceptor of RETRY_STANDARD does: it leaves the same
\* filesystem and the same counters, and it raises in the same cases.
C25_PassBUsesRetryInterceptor ==
    cleaner.mr >= 1 =>
        \A order \in Orders, p \in AllPaths :
            (Exists(fs, p) /\ ~Ok(Apply(RmtreeOp(fs, p), Exec(fs, stats), p, order)))
            => /\ Forced(Apply(RmtreeOp(fs, p), Exec(fs, stats), p, order),
                         RmtreeOp(fs, p), p, Cfg(order)).fs
                  = Intercepted(Apply(RmtreeOp(fs, p), Exec(fs, stats), p, order),
                                RmtreeOp(fs, p), p, Cfg(order)).fs
               /\ Ok(Forced(Apply(RmtreeOp(fs, p), Exec(fs, stats), p, order),
                            RmtreeOp(fs, p), p, Cfg(order)))
                  <=> Ok(Intercepted(Apply(RmtreeOp(fs, p), Exec(fs, stats), p, order),
                                     RmtreeOp(fs, p), p, Cfg(order)))

\* what force_remove_readonly leaves (r) of a failure (s0) of an operation
\* at p, b being the number of attempts a transient lock on p still
\* resists: nothing but p has changed; p is no longer read-only; one retry
\* has been made, whatever max_retries is, and it is not counted; when it
\* fails its error is raised
ForcedOnce(s0, r, p, b) ==
    /\ \A q \in AllPaths \ {p} : r.fs[q] = s0.fs[q]
    /\ ~r.fs[p].ro
    /\ r.stats = s0.stats
    /\ Ok(r) <=> ~Exists(r.fs, p)
    /\ Ok(r) => b = 0
    /\ ~Ok(r) => /\ r.err.path = p /\ IsOSError(r.err)
                 /\ r.fs[p].busy = LockLeft(s0.fs, p, 1)
                 /\ b = 0 => r.fs[p].stuck \/ ChildrenOf(r.fs, p) # {} \/ r.fs[p].nolist

ForcedAt(s0, p, cfg) ==
    ~Ok(s0) => ForcedOnce(s0, Forced(s0, RmtreeOp(s0.fs, p), p, cfg), p, s0.fs[p].busy)

\* C25 as amended: pass B runs the native delete with force_remove_readonly,
\* which clears the attribute of the failing path and retries the operation
\* once; the strategy goes through only when nothing of the tree is left,
\* and aborts with the error of an entry that is still there.
C25_PassBRetriesOnce ==
    \A order \in Orders :
        /\ \A p \in AllPaths :
               Exists(fs, p) =>
                   ForcedAt(Apply(RmtreeOp(fs, p), Exec(fs, stats), p, order), p, Cfg(order))
        /\ \A p \in CallTargets :
               IsDir(fs, p) => RetryStrategy(ForceRmtree(Exec(fs, stats), p, Cfg(order)), p)

\* FORCE_ATTRIBUTE went through, with no retry counted, after RETRY_STANDARD
\* had used up its retries
C25_Witness ==
    /\ last.api = "cleaner" /\ cleaner.mr >= 1
    /\ last.started = <<"RETRY_STANDARD", "FORCE_ATTRIBUTE">>
    /\ last.value /\ stats.retries_used = 0
    /\ ~Exists(fs, last.path)

\* what _safe_remove_file leaves (r) of a file p that a transient lock makes
\* resist b removal attempts, when the first attempt is followed by up to
\* mr retries: the file is removed if one of the 1 + mr attempts can go
\* through, and the failure is raised only after the mr retries
FileRetried(f, r, p, b, mr) ==
    /\ b <= mr => Ok(r) /\ ~Exists(r.fs, p)
    /\ ~Ok(r) => r.err.path = p /\ r.fs[p].busy = b - (1 + mr)

\* C26: in MANUAL_RECURSIVE, with max_retries positive, a file whose removal
\* fails is retried up to max_retries times after the first failed attempt,
\* and the failure is raised only when max_retries retries have failed.
C26_FileRetriedMaxRetriesTimes ==
    cleaner.mr >= 1 =>
        \A order \in Orders, p \in AllPaths :
            (IsFile(fs, p) /\ ~fs[p].stuck)
            => FileRetried(fs, SafeRemoveFile(Exec(fs, stats), p, 0, Cfg(order)), p,
                           fs[p].busy, cleaner.mr)

\* the entries of one kind that are in f and no longer in g
Deleted(f, g, kind) == {q \in AllPaths : f[q].kind = kind /\ ~Exists(g, q)}

\* C27: a call of safe_rmtree on the cleaner adds to files_removed the number
\* of files and to dirs_removed the number of directories that it deleted,
\* so that the counters hold what was deleted since the last reset.
C27_CountersMatchDeletions ==
    [][\A p \in CallTargets, ignore_errors \in BOOLEAN, order \in Orders :
          CleanerCall(p, ignore_errors, order)
          => /\ stats'.files_removed = stats.files_removed + Cardinality(Deleted(fs, fs', "file"))
             /\ stats'.dirs_removed = stats.dirs_removed + Cardinality(Deleted(fs, fs', "dir"))]_vars

\* where the name n comes in a listing
Pos(order, n) == CHOOSE i \in 1..Len(order) : order[i] = n

\* a walk that lists in `order` and removes children before their parent
\* comes to the entry y after it has come to the entry e
VisitedAfter(order, e, y) ==
    /\ y # e
    /\ \/ Len(y) < Len(e) /\ SubSeq(e, 1, Len(y)) = y
       \/ \E i \in 2..Len(y) :
              /\ i <= Len(e) /\ SubSeq(e, 1, i - 1) = SubSeq(y, 1, i - 1)
              /\ e[i] # y[i] /\ Pos(order, e[i]) < Pos(order, y[i])

\* y is, or is below, a directory whose listing is denied
Unlistable(f, y) == \E i \in 1..Len(y) : f[SubSeq(y, 1, i)].nolist

\* MANUAL_RECURSIVE (w) has ended with an error on the tree at p of f: the
\* error is at an entry of the tree that is still there; nothing that the
\* walk comes to after that entry, or that is below a directory refused for
\* its depth, has been touched; what the walk came to before
\* is gone (when max_retries is positive, so that removals are attempted),
\* but for the directories it could not list; and safe_rmtree reports the
\* failure with that error as its cause
Aborted(w, f, p, order) ==
    /\ w.err.path \in Subtree(p) /\ Exists(w.fs, w.err.path)
    /\ \A y \in Subtree(p) :
           IF VisitedAfter(order, w.err.path, y) \/ (w.err.op = "depth" /\ y \in Subtree(w.err.path))
           THEN w.fs[y] = f[y]
           ELSE (cleaner.mr >= 1 /\ y # w.err.path /\ Exists(w.fs, y)) => Unlistable(f, y)
    /\ \A ignore_errors \in BOOLEAN :
           /\ AfterManual(w, ignore_errors, <<>>).raised = ~ignore_errors
           /\ ~AfterManual(w, ignore_errors, <<>>).value
           /\ AfterManual(w, ignore_errors, <<>>).causes = <<w.err>>

\* C29: an error that leaves _safe_remove_file, _safe_remove_dir or the
\* depth guard anywhere in MANUAL_RECURSIVE ends the strategy with that
\* error: no entry that comes later in the walk is touched, and safe_rmtree
\* reports the failure, never a success.
C29_ManualAbortsOnError ==
    \A order \in Orders, p \in CallTargets :
        (IsDir(fs, p) /\ ~Ok(ManualRmtree(Exec(fs, stats), p, 0, Cfg(order))))
        => Aborted(ManualRmtree(Exec(fs, stats), p, 0, Cfg(order)), fs, p, order)

\* MANUAL_RECURSIVE has failed below the root and has left, besides the root
\* and the entry it failed at, another entry of the tree
C29_Witness ==
    /\ last.api = "cleaner" /\ cleaner.mr >= 1
    /\ last.started = Strategies /\ Len(last.causes) = 3
    /\ last.causes[3].path # last.path
    /\ Cardinality({q \in Subtree(last.path) : Exists(fs, q)}) >= 3

\* the tree at p holds locked files, each of which resists the first removal
\* attempt and gives way once its attribute has been cleared, and nothing
\* else that resists
LockedFilesOnly(f, p) ==
    /\ IsDir(f, p)
    /\ \E q \in Subtree(p) : IsFile(f, q) /\ f[q].ro
    /\ \A q \in Subtree(p) :
           Exists(f, q) => /\ ~f[q].stuck /\ ~f[q].nolist /\ f[q].busy = 0
                           /\ f[q].ro => IsFile(f, q)

\* C30: with max_retries positive, safe_rmtree on a tree whose only
\* resistance is locked files returns True from RETRY_STANDARD, having
\* started no other strategy, removes the tree, and counts at least one
\* retry.
C30_LockedFileRecovery ==
    [][\A p \in CallTargets, ignore_errors \in BOOLEAN, order \in Orders :
          (cleaner.mr >= 1 /\ LockedFilesOnly(fs, p) /\ CleanerCall(p, ignore_errors, order))
          => /\ last'.value /\ ~last'.raised
             /\ last'.started = <<"RETRY_STANDARD">> /\ last'.causes = <<>>
             /\ stats'.retries_used >= stats.retries_used + 1
             /\ stats'.errors_encountered = stats.errors_encountered
             /\ \A q \in Subtree(p) : ~Exists(fs', q)]_vars

\* the first call on the cleaner has removed the tree with one retry and no
\* failure
C30_Witness ==
    /\ last.api = "cleaner" /\ calls = 1 /\ cleaner.mr >= 1
    /\ last.value /\ last.causes = <<>>
    /\ stats.retries_used = 1 /\ stats.errors_encountered = 0
    /\ ~Exists(fs, last.path)

(***************************************************************************)
(* Symbolic links.  A scratch directory t1 is torn down while a second     *)
(* live scratch directory t2 holds a file; an entry of t1 may be a link to *)
(* t2 or to the file in it.                                                *)
(***************************************************************************)
TornRoot == <<"t1">>

LiveRoot == <<"t2">>

LiveFile == <<"t2", "a">>

LinkTargets == {LiveRoot, LiveFile}

LinkInit ==
    /\ fs \in {[EmptyFs EXCEPT ![TornRoot] = NewDir, ![LiveRoot] = NewDir,
                               ![LiveFile] = [NewFile EXCEPT !.ro = r]] : r \in BOOLEAN}
    /\ stats = ZeroStats
    /\ cleaner \in [mr : 0..MaxRetriesBound, md : 0..MaxDepthBound]
    /\ last = NoCall
    /\ calls = 0
    /\ platform \in {"windows", "posix"}
    /\ handle = NoHandle
    /\ scope = NoScope
    /\ patch = Unpatched
    /\ snap = NoSnapshot

\* os.symlink(t, p): the caller puts a link to t into its scratch directory
MakeLink(p, t) ==
    /\ calls = 0
    /\ Len(p) > 1 /\ Last(p) = "s"
    /\ IsDir(fs, Parent(p)) /\ ~Exists(fs, p)
    /\ fs' = [fs EXCEPT ![p] = NewLink(t)]
    /\ UNCHANGED <<stats, cleaner, last, calls, platform, snap, patch, handle, scope>>

LinkPopulate ==
    \E p \in Subtree(TornRoot) :
        \/ WriteFile(p)
        \/ MakeDir(p)
        \/ \E t \in LinkTargets : MakeLink(p, t)

LinkPathology ==
    \E p \in Subtree(TornRoot) :
        \/ SetReadOnly(p)
        \/ LockForever(p)
        \/ DenyListing(p)
        \/ \E k \in 1..MaxBusy : LockTransient(p, k)

LinkTeardown ==
    \E ignore_errors \in BOOLEAN, order \in Orders :
        \/ CleanerCall(TornRoot, ignore_errors, order)
        \/ PlatformCall(TornRoot, ignore_errors, order)

LinkNext == LinkPopulate \/ LinkPathology \/ LinkTeardown

LinkSpec == LinkInit /\ [][LinkNext]_vars

\* C28: a call of safe_rmtree on p leaves every entry outside the tree
\* rooted at p as it was: none is removed and none has an attribute changed,
\* the target of a link inside the tree and the entries of another live
\* scratch directory included.
C28_TeardownStaysInsideTree ==
    [][\A p \in CallTargets, ignore_errors \in BOOLEAN, order \in Orders :
          (CleanerCall(p, ignore_errors, order) \/ PlatformCall(p, ignore_errors, order))
          => \A q \in AllPaths \ Subtree(p) : fs'[q] = fs[q]]_vars

(***************************************************************************)
(* The remaining properties of the teardown engine.                        *)
(***************************************************************************)
\* the filesystem f with the empty directory p turned into a file that has
\* the same attributes and locks
AsFile(f, p) == [f EXCEPT ![p].kind = "file"]

\* the removal rule of files (rf) and of directories (rd) have done the same
\* to p: both went through, or both raised and left the same attributes
SameRule(rf, rd, p) ==
    /\ Ok(rf) <=> Ok(rd)
    /\ Exists(rf.fs, p) <=> Exists(rd.fs, p)
    /\ rf.fs[p].ro = rd.fs[p].ro /\ rf.fs[p].busy = rd.fs[p].busy
    /\ rf.err.type = rd.err.type

\* C31: in MANUAL_RECURSIVE an empty directory is removed by the rule that
\* removes a file: the attribute is cleared, the removal is retried as many
\* times, and the same errors are retried, so _safe_remove_dir does to an
\* empty directory what _safe_remove_file does to a file in the same state.
C31_DirRemovedByFileRule ==
    \A p \in AllPaths, order \in Orders :
        (cleaner.mr >= 1 /\ IsDir(fs, p) /\ ChildrenOf(fs, p) = {})
        => SameRule(SafeRemoveFile(Exec(AsFile(fs, p), stats), p, 0, Cfg(order)),
                    SafeRemoveDir(Exec(fs, stats), p, 0, Cfg(order)), p)

\* pass A of _force_rmtree on the tree at p
PassA(f, c, p, order) == WalkChmod(Start(Exec(f, c), "FORCE_ATTRIBUTE"), p, Cfg(order))

\* what pass A leaves (w) of the tree at p in f: no error, every entry still
\* there with its locks, and none of them read-only
ClearedAll(w, f, p) ==
    /\ Ok(w)
    /\ \A q \in AllPaths \ Subtree(p) : w.fs[q] = f[q]
    /\ \A q \in Subtree(p) : w.fs[q] = [f[q] EXCEPT !.ro = FALSE]

\* C32: pass A of FORCE_ATTRIBUTE clears the read-only attribute of every
\* entry of the tree, removes nothing and raises nothing.
C32_PassAClearsEveryEntry ==
    \A p \in CallTargets, order \in Orders :
        IsDir(fs, p) => ClearedAll(PassA(fs, stats, p, order), fs, p)

\* MANUAL_RECURSIVE alone on the tree at p
Manual(f, c, p, order) == ManualRmtree(Start(Exec(f, c), "MANUAL_RECURSIVE"), p, 0, Cfg(order))

\* the places in the removal attempts `ops` of the attempts made on the
\* entries in S
Places(ops, S) == {i \in 1..Len(ops) : ops[i][2] \in S}

\* c comes before d in the listing of their common parent
ListedBefore(order, c, d) ==
    /\ c # d /\ Len(c) = Len(d) /\ Len(c) > 1 /\ Parent(c) = Parent(d)
    /\ Pos(order, Last(c)) < Pos(order, Last(d))

\* the removal attempts of one run of MANUAL_RECURSIVE on the tree f, in
\* order: the removal of a directory comes after every attempt made below
\* it and after an attempt on each child that was listed and that the walk
\* acts on; whatever is done in the subtree of a child comes before anything
\* done in the subtree of a child listed later
PostOrderSequential(ops, f, order, mr) ==
    /\ \A i \in 1..Len(ops) :
           ops[i][1] = "rmdir"
           => /\ \A j \in Places(ops, Subtree(ops[i][2]) \ {ops[i][2]}) : j < i
              /\ \A c \in ChildrenOf(f, ops[i][2]) :
                     (mr >= 1 /\ ~f[c].nolist) => \E j \in Places(ops, {c}) : j < i
    /\ \A c \in AllPaths, d \in AllPaths :
           ListedBefore(order, c, d)
           => \A i \in Places(ops, Subtree(c)), j \in Places(ops, Subtree(d)) : i < j

\* C33: MANUAL_RECURSIVE removes in post-order, one child at a time: a child
\* directory is processed to its end, one level deeper, before the child
\* listed after it is touched, and the removal of a directory is attempted
\* only after each of its listed children has been processed.
C33_ManualIsPostOrder ==
    \A p \in CallTargets, order \in Orders :
        IsDir(fs, p)
        => /\ PostOrderSequential(Manual(fs, stats, p, order).ops, fs, order, cleaner.mr)
           /\ Manual(fs, stats, p, order).err.op = "depth"
              => Len(Manual(fs, stats, p, order).err.path) = Len(p) + cleaner.md + 1

\* MANUAL_RECURSIVE has removed a tree with a file and a subdirectory that
\* held a file, after the two strategies before it had failed
C33_Witness ==
    /\ last.api = "cleaner" /\ calls = 1 /\ cleaner.md >= 1
    /\ last.started = <<"RETRY_STANDARD", "FORCE_ATTRIBUTE", "MANUAL_RECURSIVE">>
    /\ last.value /\ ~Exists(fs, last.path)
    /\ stats.files_removed = 4 /\ stats.dirs_removed = 2

(***************************************************************************)
(* Cycles of symbolic links: an entry of t1 may also be a link back to t1. *)
(* The cleaner is one that was constructed with max_depth in               *)
(* 0..MaxDepthBound.                                                       *)
(***************************************************************************)
CycleTargets == LinkTargets \cup {TornRoot}

CyclePopulate ==
    \E p \in Subtree(TornRoot) :
        \/ WriteFile(p)
        \/ MakeDir(p)
        \/ \E t \in CycleTargets : MakeLink(p, t)

CycleTeardown ==
    \E ignore_errors \in BOOLEAN, order \in Orders : CleanerCall(TornRoot, ignore_errors, order)

CycleNext == CyclePopulate \/ LinkPathology \/ CycleTeardown

CycleSpec == LinkInit /\ [][CycleNext]_vars

\* the tree at p holds a link back to p
Cyclic(f, p) == \E q \in Subtree(p) : IsLink(f, q) /\ f[q].target = p

\* the removal attempts made on q while the k-th strategy was running
AttemptsOn(ops, q, k) == Cardinality({i \in 1..Len(ops) : ops[i][2] = q /\ ops[i][3] = k})

\* the most attempts a strategy makes on one entry: the attempt of the
\* native delete and max_retries retries in RETRY_STANDARD, the attempt and
\* one retry in FORCE_ATTRIBUTE, max_retries attempts in MANUAL_RECURSIVE
MostAttempts(k, mr) == CASE k = 1 -> 1 + mr [] k = 2 -> 2 [] OTHER -> mr

\* the execution w made a bounded number of attempts on every entry in each
\* strategy, none of them more than max_retries retries, and its manual
\* recursion did not work below max_depth
Bounded(w, mr, md) ==
    /\ w.deep <= md
    /\ Len(w.log) <= 3
    /\ \A q \in AllPaths, k \in 1..3 :
           /\ AttemptsOn(w.ops, q, k) <= MostAttempts(k, mr)
           /\ AttemptsOn(w.ops, q, k) <= 1 + mr

\* C34: a call of safe_rmtree does a bounded amount of work on every tree,
\* one with a cycle of symbolic links included, and so comes to an end: for
\* max_retries positive no entry is retried more than max_retries times in
\* one strategy, no more than three strategies are started, and the manual
\* recursion does not go deeper than max_depth.
C34_TeardownIsBounded ==
    \A p \in CallTargets, ignore_errors \in BOOLEAN, order \in Orders :
        (cleaner.mr >= 1 /\ IsDir(fs, p))
        => /\ Bounded(SafeRmtree(Exec(fs, stats), p, ignore_errors, Cfg(order)).st,
                      cleaner.mr, cleaner.md)
           /\ ~Cyclic(fs, p)
              => Bounded(SafeWindowsRmtree(Exec(fs, stats), p, ignore_errors, order).st,
                         DefaultMaxRetries, DefaultMaxDepth)

\* a call on a tree with a link back to its root has ended: the manual
\* recursion went round the cycle until the depth check stopped it
C34_Witness ==
    /\ last.api = "cleaner" /\ cleaner.mr >= 1
    /\ Cyclic(fs, last.path)
    /\ Len(last.causes) = 3 /\ last.causes[3].op = "depth"

(***************************************************************************)
(* The remaining properties of the scoped handles.                         *)
(***************************************************************************)
\* the number of times p occurs in the sequence s
Times(s, p) == Cardinality({i \in 1..Len(s) : s[i] = p})

\* C35: once cleanup() of a SafeTemporaryDirectory or a SafeTempDir has
\* ended, with a teardown that went through, with one that returned False
\* or with an exception, the handle holds no path; and the handle tears a
\* directory down once at most: every teardown is of the directory created
\* since the teardown before it.
C35_CleanupDropsThePath ==
    handle.form \in {"std", "tmp"}
    => /\ handle.res.op \in {"cleanup", "del"} => handle.name = NoPath
       /\ \A p \in CallTargets :
              /\ Times(handle.torn, p) <= Times(handle.created, p)
              /\ handle.name = p => Times(handle.torn, p) < Times(handle.created, p)

\* cleanup() of a SafeTempDir has returned False: the directory is still
\* there and the handle has let go of it
C35_Witness ==
    /\ handle.form = "tmp" /\ handle.res = OpRes("cleanup", "none", "False")
    /\ handle.name = NoPath
    /\ handle.torn # <<>> /\ Exists(fs, handle.torn[Len(handle.torn)])

(***************************************************************************)
(* The remaining properties of the cleaner, checked under Spec.            *)
(***************************************************************************)
\* every directory of the tree at p can be listed
Listable(f, p) == \A q \in Subtree(p) : ~f[q].nolist

\* C36: whatever max_retries the cleaner was constructed with, 0 included,
\* safe_rmtree does not return True while the directory is still there: an
\* entry that cannot be removed makes the strategy that met it fail.
C36_NoSuccessWithoutRetries ==
    [][\A p \in CallTargets, ignore_errors \in BOOLEAN, order \in Orders :
          (Listable(fs, p) /\ CleanerCall(p, ignore_errors, order))
          => (last'.value => ~Exists(fs', p))]_vars

(***************************************************************************)
(* Two teardowns of distinct scratch directories, checked under LinkSpec.  *)
(***************************************************************************)
\* the entries that are in f and no longer in g
Gone(f, g) == {q \in AllPaths : Exists(f, q) /\ ~Exists(g, q)}

\* safe_windows_rmtree(p) on the filesystem f
Alone(f, p, ignore_errors, order) == SafeWindowsRmtree(Exec(f, ZeroStats), p, ignore_errors, order)

\* the call a on the filesystem f and the call b on the filesystem g have
\* the same result and have removed the same entries
SameTeardown(a, f, b, g) ==
    /\ a.raised = b.raised /\ a.value = b.value /\ a.started = b.started
    /\ Gone(f, a.st.fs) = Gone(g, b.st.fs)

\* C37: two teardowns of distinct scratch directories do not affect each
\* other: safe_windows_rmtree(p) returns the same and removes the same
\* entries when a teardown of another directory d has run before it as when
\* it runs alone.
C37_TeardownsAreIndependent ==
    \A p \in CallTargets, d \in CallTargets, ignore_errors \in BOOLEAN, order \in Orders :
        (p # d /\ IsDir(fs, p) /\ IsDir(fs, d))
        => SameTeardown(Alone(fs, p, ignore_errors, order), fs,
                        Alone(Alone(fs, d, ignore_errors, order).st.fs, p, ignore_errors, order),
                        Alone(fs, d, ignore_errors, order).st.fs)

(***************************************************************************)
(* windows_patches.py: one WindowsPatches manager and the class installed  *)
(* as tempfile.TemporaryDirectory.  The manager's _is_windows is the host  *)
(* of `platform`.                                                          *)
(***************************************************************************)
\* patch_context blocks open at one time
MaxContexts == 3

\* a variant of remove_patches that leaves tempfile as it is
RemovePatchesKeepsClass(w) ==
    IF ~w.applied THEN [w EXCEPT !.res = PatchRes("remove", FALSE)]
    ELSE [w EXCEPT !.original = NoClass, !.applied = FALSE, !.res = PatchRes("remove", TRUE)]

\* WindowsPatches.remove_patches()
RemovePatches(w) ==
    IF ~w.applied THEN [w EXCEPT !.res = PatchRes("remove", FALSE)]
    ELSE [w EXCEPT !.tempdir = IF w.original # NoClass THEN w.original ELSE @,
                   !.original = NoClass, !.applied = FALSE,
                   !.res = PatchRes("remove", TRUE)]

\* WindowsPatches.apply_patches()
ApplyPatches(w, is_windows) ==
    IF ~is_windows \/ w.applied THEN [w EXCEPT !.res = PatchRes("apply", FALSE)]
    ELSE [w EXCEPT !.original = w.tempdir, !.tempdir = SafeClass, !.applied = TRUE,
                   !.res = PatchRes("apply", TRUE)]

\* WindowsPatches.is_patched()
IsPatched(w) == [w EXCEPT !.res = PatchRes("is_patched", w.applied)]

\* patch_context up to its yield: applied = self.apply_patches()
ContextOpened(w) == [w EXCEPT !.open = Append(@, w.res.value), !.res = PatchRes("enter", w.res.value)]

\* patch_context, finally: if applied: self.remove_patches()
ContextClosed(w, applied) ==
    IF applied THEN [RemovePatches(w) EXCEPT !.res = PatchRes("exit", FALSE)]
    ELSE [w EXCEPT !.res = PatchRes("exit", FALSE)]

PatchInit ==
    /\ fs = EmptyFs
    /\ stats = ZeroStats
    /\ cleaner = [mr |-> DefaultMaxRetries, md |-> DefaultMaxDepth]
    /\ last = NoCall
    /\ calls = 0
    /\ platform \in {"windows", "posix"}
    /\ handle = NoHandle
    /\ scope = NoScope
    /\ patch = Unpatched
    /\ snap = NoSnapshot

ApplyCall ==
    /\ patch' = ApplyPatches(patch, platform = "windows")
    /\ UNCHANGED <<fs, stats, cleaner, last, calls, platform, snap, handle, scope>>

RemoveCall ==
    /\ patch' = RemovePatches(patch)
    /\ UNCHANGED <<fs, stats, cleaner, last, calls, platform, snap, handle, scope>>

IsPatchedCall ==
    /\ patch' = IsPatched(patch)
    /\ UNCHANGED <<fs, stats, cleaner, last, calls, platform, snap, handle, scope>>

\* with manager.patch_context(): the block is entered
ContextEnter ==
    /\ Len(patch.open) < MaxContexts
    /\ patch' = ContextOpened(ApplyPatches(patch, platform = "windows"))
    /\ UNCHANGED <<fs, stats, cleaner, last, calls, platform, snap, handle, scope>>

\* the innermost block is left, by return or by exception
ContextExit ==
    /\ patch.open # <<>>
    /\ patch' = ContextClosed([patch EXCEPT !.open = SubSeq(@, 1, Len(@) - 1)],
                              patch.open[Len(patch.open)])
    /\ UNCHANGED <<fs, stats, cleaner, last, calls, platform, snap, handle, scope>>

PatchNext == ApplyCall \/ RemoveCall \/ IsPatchedCall \/ ContextEnter \/ ContextExit

PatchSpec == PatchInit /\ [][PatchNext]_vars

\* C38: is_patched() is true exactly when tempfile.TemporaryDirectory is
\* SafeTemporaryDirectory; apply_patches returns True only when it makes the
\* replacement, on Windows and with no patch applied, and changes nothing
\* when it returns False; after remove_patches tempfile.TemporaryDirectory
\* is the class that was there before the first apply.
C38_PatchStateIsConsistent ==
    /\ [](patch.applied <=> patch.tempdir = SafeClass)
    /\ [](patch.res.op = "is_patched" => (patch.res.value <=> patch.tempdir = SafeClass))
    /\ [][/\ ApplyCall /\ patch'.res.value
             => platform = "windows" /\ ~patch.applied /\ patch.tempdir = StdClass
                /\ patch'.tempdir = SafeClass
          /\ ApplyCall /\ ~patch'.res.value
             => patch' = [patch EXCEPT !.res = PatchRes("apply", FALSE)]
          /\ RemoveCall => patch'.tempdir = StdClass /\ ~patch'.applied
          /\ RemoveCall => (patch'.res.value <=> patch.applied)]_vars

\* remove_patches has put the standard class back while a patch_context
\* block that had applied the patch is still open
C38_Witness ==
    /\ patch.res = PatchRes("remove", TRUE)
    /\ patch.tempdir = StdClass
    /\ patch.open # <<>> /\ patch.open[1]

(***************************************************************************)
(* The statistics of one cleaner and a caller that reads them.             *)
(***************************************************************************)
\* a variant of get_cleanup_stats that hands out the cleaner's own dictionary
GetCleanupStatsOwn(c) == Snapshot(TRUE, c)

\* get_cleanup_stats(): dict(self._cleanup_stats), a new dictionary
GetCleanupStats(c) == Snapshot(FALSE, c)

\* the value a caller writes into a dictionary it was given
Scribble == 0 - 1

StatKeys == {"files_removed", "dirs_removed", "retries_used", "errors_encountered"}

\* stats = cleaner.get_cleanup_stats(), once
GetStatsCall ==
    /\ ~snap.taken
    /\ snap' = GetCleanupStats(stats)
    /\ UNCHANGED <<fs, stats, cleaner, last, calls, platform, handle, scope, patch>>

\* stats[k] = -1 by the caller: a write to a dictionary goes to the object
\* it names
WriteSnapshot(k) ==
    /\ snap.taken /\ ~snap.written
    /\ snap' = [snap EXCEPT !.items[k] = Scribble, !.written = TRUE]
    /\ stats' = IF snap.own THEN [stats EXCEPT ![k] = Scribble] ELSE stats
    /\ UNCHANGED <<fs, cleaner, last, calls, platform, handle, scope, patch>>

StatsTeardown ==
    \E p \in CallTargets, ignore_errors \in BOOLEAN, order \in Orders :
        CleanerCall(p, ignore_errors, order)

StatsNext ==
    \/ Populate
    \/ Pathology
    \/ StatsTeardown
    \/ ResetStats
    \/ GetStatsCall
    \/ \E k \in StatKeys : WriteSnapshot(k)

StatsSpec == Init /\ [][StatsNext]_vars

\* counters other than the cleaner's own, to run a call with
OtherStats == [files_removed |-> 3, dirs_removed |-> 1, retries_used |-> 2, errors_encountered |-> 1]

\* the two calls have the same outcome and leave the same filesystem
SameOutcome(a, b) ==
    /\ a.raised = b.raised /\ a.value = b.value /\ a.exc = b.exc
    /\ a.started = b.started /\ a.causes = b.causes
    /\ a.st.fs = b.st.fs

\* C39: get_cleanup_stats changes nothing and returns a snapshot: writing to
\* it does not change the cleaner's counters; reset_stats sets the four
\* counters to 0 and changes nothing else; and safe_rmtree gives the same
\* result whatever the counters are.
C39_StatsAreReadOnlyAndAdvisory ==
    /\ [][/\ GetStatsCall => snap'.items = stats /\ stats' = stats /\ fs' = fs
          /\ (\E k \in StatKeys : WriteSnapshot(k)) => stats' = stats /\ fs' = fs
          /\ ResetStats => /\ stats' = ZeroStats
                           /\ UNCHANGED <<fs, cleaner, last, calls, platform, snap>>]_vars
    /\ [](\A p \in CallTargets, ignore_errors \in BOOLEAN, order \in Orders :
              SameOutcome(SafeRmtree(Exec(fs, stats), p, ignore_errors, Cfg(order)),
                          SafeRmtree(Exec(fs, OtherStats), p, ignore_errors, Cfg(order))))

\* a caller has written to the snapshot it took after a call that counted
\* something, and the cleaner still has its counters
C39_Witness ==
    /\ snap.taken /\ snap.written /\ calls >= 1
    /\ stats # ZeroStats
    /\ \E k \in StatKeys : snap.items[k] = Scribble /\ stats[k] >= 0

\* a safe_temp_directory(auto_cleanup=False) statement
KeepsDirectory == handle.form = "ctx" /\ ~handle.auto

\* C40: with auto_cleanup=False safe_temp_directory never invokes teardown:
\* when the body returns and when it raises, the exit of the with statement
\* leaves every entry of the filesystem as it was, calls no safe_rmtree, and
\* lets the body's exception through.
C40_NoAutoCleanupLeavesDirectory ==
    /\ [](KeepsDirectory => last = NoCall /\ handle.torn = <<>>)
    /\ [][KeepsDirectory /\ scope.pc = "body" /\ scope'.pc = "exited"
              => /\ fs' = fs
                 /\ last' = last
                 /\ scope'.callerExc = scope'.bodyExc]_vars

\* the body of an auto_cleanup=False statement staged an entry and raised,
\* and the directory and the entry are on disk
C40_Witness ==
    /\ KeepsDirectory /\ scope.pc = "exited" /\ scope.bodyExc = "BodyError"
    /\ scope.path # NoPath /\ IsDir(fs, scope.path)
    /\ \E q \in Subtree(scope.path) : q # scope.path /\ Exists(fs, q)

====
